---- MODULE Spec2Model ----
(***************************************************************************)
(* rtrack frontend: session handling (token store, admin-status cache,     *)
(* ApiClient error handling, route guards, navbar) and the compliance page *)
(* (filters, overlapping requests, rendering branches).                    *)
(*                                                                         *)
(* JavaScript runs one task at a time: an event handler, a timer callback  *)
(* or the code after an awaited fetch runs to its next await.  A promise   *)
(* settled by ApiClient is consumed by the caller's continuation in the    *)
(* following microtask, before any other event is served, so in Spec the   *)
(* end of request() and the caller's continuation are one step.  ApiSpec   *)
(* follows a single ApiClient call in separate steps, AuthSpec observes    *)
(* isAuthenticated(), ComplianceSpec follows one tab of the compliance     *)
(* page.                                                                   *)
(***************************************************************************)
EXTENDS Integers, Sequences, FiniteSets, TLC

\* ---------------------------------------------------------------- bounds
MaxNow == 600000          \* the clock (ms) stops advancing here
MaxInFlight == 1          \* requests in flight at once

\* the clock advances in steps of 300 s, so that an age of exactly
\* CACHE_DURATION and an exp of exactly now are hit
TickSteps == {300000}

\* ------------------------------------------------------ admin-cache.ts
CACHE_DURATION == 5 * 60 * 1000

\* adminStatusCache: null, or {isAdmin, timestamp}
NoCache == [set |-> FALSE, isAdmin |-> FALSE, timestamp |-> 0]

\* boolean | null as returned to the callers
Tri(b) == IF b THEN "true" ELSE "false"

\* getCachedAdminStatus(): the value returned and the cache it leaves
getCachedAdminStatus_late(cache, t) ==
    IF ~cache.set THEN [value |-> "null", cache |-> NoCache]
    ELSE IF t - cache.timestamp >= CACHE_DURATION
         THEN [value |-> "null", cache |-> NoCache]
         ELSE [value |-> Tri(cache.isAdmin), cache |-> cache]

getCachedAdminStatus(cache, t) ==
    IF ~cache.set THEN [value |-> "null", cache |-> NoCache]
    ELSE IF t - cache.timestamp > CACHE_DURATION
         THEN [value |-> "null", cache |-> NoCache]
         ELSE [value |-> Tri(cache.isAdmin), cache |-> cache]

setCachedAdminStatus(isAdmin, t) ==
    [set |-> TRUE, isAdmin |-> isAdmin, timestamp |-> t]

clearAdminStatusCache == NoCache

\* -------------------------------------------------------------- auth.ts
\* A stored token, by what decodeToken makes of it:
\*   "undecodable"  no payload segment, bad base64 or bad JSON
\*   "noexp"        a payload without exp
\*   "num"          a payload whose exp is the number `exp` (seconds)
\*   "nonnum"       a payload whose exp is a non-numeric string
NoToken == [kind |-> "absent", exp |-> 0]

ExpSeconds == {0, 300}
TokenKinds == {"undecodable", "noexp", "num", "nonnum"}

Tokens ==
    {[kind |-> k, exp |-> 0] : k \in TokenKinds \ {"num"}}
    \cup {[kind |-> "num", exp |-> e] : e \in ExpSeconds}

\* a JavaScript number: a finite value or NaN
NaN == [nan |-> TRUE, v |-> 0]
Num(n) == [nan |-> FALSE, v |-> n]

\* decodeToken(token): null, or the payload; exp is absent, a number or
\* some other value
decodeToken(tk) ==
    CASE tk.kind = "undecodable" -> [null |-> TRUE, exp |-> "absent", n |-> 0]
      [] tk.kind = "noexp"  -> [null |-> FALSE, exp |-> "absent", n |-> 0]
      [] tk.kind = "num"    -> [null |-> FALSE, exp |-> "number", n |-> tk.exp]
      [] tk.kind = "nonnum" -> [null |-> FALSE, exp |-> "string", n |-> 0]

\* !decoded.exp : undefined and 0 are falsy, a non-empty string is truthy
ExpFalsy(d) == d.exp = "absent" \/ (d.exp = "number" /\ d.n = 0)

\* decoded.exp * 1000
Times1000(d) == IF d.exp = "number" THEN Num(d.n * 1000) ELSE NaN

\* currentTime >= expirationTime ; every comparison with NaN is false
JsGeq(a, b) == ~a.nan /\ ~b.nan /\ a.v >= b.v
isTokenExpired(tk, t) ==
    LET decoded == decodeToken(tk) IN
    IF decoded.null \/ ExpFalsy(decoded) THEN TRUE
    ELSE JsGeq(Num(t), Times1000(decoded))

\* isAuthenticated(): the value returned and the token it leaves stored
isAuthenticated(tk, t) ==
    IF tk = NoToken THEN [value |-> FALSE, token |-> tk]
    ELSE IF isTokenExpired(tk, t) THEN [value |-> FALSE, token |-> NoToken]
    ELSE [value |-> TRUE, token |-> tk]

\* ---------------------------------------------------------------- api.ts
\* A backend answer.  body is what response.json() makes of the payload:
\*   "invalid"  not JSON (response.json() rejects)
\*   "null"     the JSON value null
\*   "object"   a JSON object; detail is absent, a string or another value
\* data is the part of a 2xx body the callers read.
NoData == [is_admin |-> FALSE, access_token |-> NoToken]

Statuses == {200, 401, 404, 500}
StatusTexts == {"", "Server Error"}
Details == {[t |-> "absent", s |-> ""], [t |-> "string", s |-> ""],
            [t |-> "string", s |-> "Employee not found"],
            [t |-> "other", s |-> "[object Object]"]}
Bodies == {[kind |-> "invalid", detail |-> [t |-> "absent", s |-> ""]],
           [kind |-> "null", detail |-> [t |-> "absent", s |-> ""]]}
          \cup {[kind |-> "object", detail |-> d] : d \in Details}

ErrorResponses ==
    {[status |-> st, statusText |-> tx, body |-> b, data |-> NoData] :
        st \in Statuses \ {200}, tx \in StatusTexts, b \in Bodies}

OkBody == [kind |-> "object", detail |-> [t |-> "absent", s |-> ""]]

\* the 2xx answers of an endpoint
OkResponses(ep) ==
    CASE ep = "/auth/me" ->
           {[status |-> 200, statusText |-> "OK", body |-> OkBody,
             data |-> [is_admin |-> a, access_token |-> NoToken]] :
                a \in BOOLEAN}
      [] ep = "/auth/token" ->
           {[status |-> 200, statusText |-> "OK", body |-> OkBody,
             data |-> [is_admin |-> FALSE, access_token |-> tk]] :
                tk \in Tokens}
      [] OTHER ->
           {[status |-> 200, statusText |-> "OK", body |-> OkBody,
             data |-> NoData]}

\* response.ok
ResponseOk(resp) == resp.status >= 200 /\ resp.status <= 299

SessionExpired == "Session expired. Please login again."
NullDetailTypeError == "Cannot read properties of null (reading 'detail')"

\* const error = await response.json().catch(() => ({detail: statusText}));
\* throw new Error(error.detail || `HTTP ${response.status}`);
ErrorMessage_statusOnly(resp) ==
    IF resp.body.kind = "null" THEN NullDetailTypeError
    ELSE IF resp.body.kind = "invalid" /\ resp.statusText # ""
         THEN resp.statusText
         ELSE "HTTP " \o ToString(resp.status)

ErrorMessage(resp) ==
    LET detail == IF resp.body.kind = "invalid"
                  THEN [t |-> "string", s |-> resp.statusText]
                  ELSE resp.body.detail
    IN  IF resp.body.kind = "null" THEN NullDetailTypeError
        ELSE IF detail.t # "absent" /\ detail.s # "" THEN detail.s
        ELSE "HTTP " \o ToString(resp.status)

Settled(outcome, message, logout, redirect) ==
    [outcome |-> outcome, message |-> message,
     logout |-> logout, redirect |-> redirect]

\* ApiClient.request after `await fetch(...)`: how the call settles, and
\* whether this.logout() and window.location.href = '/login' ran
request_no401(resp) ==
    IF ~ResponseOk(resp)
    THEN Settled("rejected", ErrorMessage(resp), FALSE, FALSE)
    ELSE Settled("resolved", "", FALSE, FALSE)

request(resp) ==
    IF ~ResponseOk(resp)
    THEN IF resp.status = 401
         THEN Settled("rejected", SessionExpired, TRUE, TRUE)
         ELSE Settled("rejected", ErrorMessage(resp), FALSE, FALSE)
    ELSE Settled("resolved", "", FALSE, FALSE)

\* ApiClient.uploadExcel after its own fetch
uploadExcel(resp) ==
    IF ~ResponseOk(resp)
    THEN IF resp.status = 401
         THEN Settled("rejected", SessionExpired, TRUE, TRUE)
         ELSE Settled("rejected", ErrorMessage(resp), FALSE, FALSE)
    ELSE Settled("resolved", "", FALSE, FALSE)

\* ApiClient.uploadAttendance after its own fetch
uploadAttendance(resp) ==
    IF ~ResponseOk(resp)
    THEN IF resp.status = 401
         THEN Settled("rejected", SessionExpired, TRUE, TRUE)
         ELSE Settled("rejected", ErrorMessage(resp), FALSE, FALSE)
    ELSE Settled("resolved", "", FALSE, FALSE)

\* the ApiClient method behind each endpoint
Endpoints == {"/auth/me", "/auth/token", "/employees/upload",
              "/attendance/upload", "/employees"}

ClientMethod(ep, resp) ==
    CASE ep = "/employees/upload" -> uploadExcel(resp)
      [] ep = "/attendance/upload" -> uploadAttendance(resp)
      [] OTHER -> request(resp)

\* the awaited fetch itself rejects: no answer at all
NetworkError ==
    [status |-> 0, statusText |-> "", body |-> OkBody, data |-> NoData]

\* how a call of endpoint ep ends when the backend answers ans
Outcome(ep, ans) ==
    IF ans = NetworkError
    THEN Settled("rejected", "Failed to fetch", FALSE, FALSE)
    ELSE ClientMethod(ep, ans)

\* ApiClient.logout: removeToken(); clearAdminStatusCache()
logout(tk, cache) == [token |-> NoToken, cache |-> clearAdminStatusCache]

\* ------------------------------------------------------- session state
VARIABLES
    now,               \* Date.now()
    token,             \* localStorage['auth_token']
    adminStatusCache,  \* the module variable of admin-cache.ts
    href,              \* the location last asked for (router or window)
    reloadPending,     \* window.location.href was assigned: a full load
    page,              \* the page whose components are on screen
    calls,             \* the ApiClient calls awaited by components
    protectedRoute,    \* ProtectedRoute instance
    adminRoute,        \* AdminRoute instance; source and verified are
                       \* history: where its isAdmin came from, and
                       \* whether that was a cached or answered `true`
    navbar,            \* Navbar instance
    compliancePage,    \* CompliancePage instance (its isAdmin state)
    apiCall,           \* one ApiClient call, followed step by step
    lastSet,           \* history: the last setCachedAdminStatus not cleared
    authMeFailedAt,    \* history: when a catch of GET /auth/me last wrote
                       \* false to the cache of this document (-1: not
                       \* since it was loaded or logged out; -2: the
                       \* failures are not followed)
    afterLogout        \* history: apiClient.logout ran, no login since

sessionVars == <<now, token, adminStatusCache, href, reloadPending, page,
                 calls, protectedRoute, adminRoute, navbar, compliancePage,
                 apiCall, lastSet, authMeFailedAt, afterLogout>>

VARIABLE authCheck         \* the last isAuthenticated() call observed

VARIABLES
    cpTab,             \* the tab that is followed
    activeTab,         \* CompliancePage.activeTab
    cp,                \* the tab's state: compliance, loading, filters, page
    cpPending,         \* the tab's requests in flight
    cpIssued,          \* history: requests sent so far (they are numbered)
    cpLastOk,          \* history: number of the last request answered 2xx
    cpMaxOk            \* history: largest number of a request answered 2xx

complianceVars == <<cpTab, activeTab, cp, cpPending, cpIssued, cpLastOk,
                    cpMaxOk>>

\* ------------------------------------- components followed on their own
VARIABLES
    debounce,          \* a debounced search input
    exceptionDialog,   \* ExceptionDialog: its form and its call
    attendance,        \* AttendancePage or UploadPage
    cell,              \* one cell of a compliance table
    options,           \* fetchExceptionOptions of CompliancePage
    employeesPage,     \* EmployeesPage: its list, pager and requests
    calculateDialog    \* CalculateDialog and handleCalculate of the page

pagesVars == <<debounce, exceptionDialog, attendance, cell, options, employeesPage, calculateDialog>>

\* everything but debounce
except_debounce ==
    <<sessionVars, authCheck, complianceVars, exceptionDialog, attendance, cell, options, employeesPage, calculateDialog>>

\* everything but exceptionDialog
except_exceptionDialog ==
    <<sessionVars, authCheck, complianceVars, debounce, attendance, cell, options, employeesPage, calculateDialog>>

\* everything but attendance
except_attendance ==
    <<sessionVars, authCheck, complianceVars, debounce, exceptionDialog, cell, options, employeesPage, calculateDialog>>

\* everything but cell
except_cell ==
    <<sessionVars, authCheck, complianceVars, debounce, exceptionDialog, attendance, options, employeesPage, calculateDialog>>

\* everything but options
except_options ==
    <<sessionVars, authCheck, complianceVars, debounce, exceptionDialog, attendance, cell, employeesPage, calculateDialog>>

\* everything but employeesPage
except_employeesPage ==
    <<sessionVars, authCheck, complianceVars, debounce, exceptionDialog, attendance, cell, options, calculateDialog>>

\* everything but calculateDialog
except_calculateDialog ==
    <<sessionVars, authCheck, complianceVars, debounce, exceptionDialog, attendance, cell, options, employeesPage>>

\* ------------------------------------------------------- session helpers
PageOf(h) == CASE h = "/login" -> "login"
               [] h = "/compliance" -> "compliance"
               [] OTHER -> "admin"

NoProtectedRoute ==
    [present |-> FALSE, mounted |-> FALSE, shown |-> "null", intervalAt |-> -1]
NoAdminRoute ==
    [pc |-> "absent", isAdmin |-> "null", isChecking |-> TRUE,
     source |-> "none", verified |-> FALSE]
NoNavbar == [pc |-> "absent", isAdmin |-> "null", userInfo |-> FALSE]
NoCompliancePage == [pc |-> "absent", isAdmin |-> FALSE]
NoApiCall == [st |-> "idle", ep |-> "", resp |-> NetworkError,
              res |-> Settled("pending", "", FALSE, FALSE)]

\* a call: the endpoint, the component that awaits it, whether getToken()
\* gave a token for the Authorization header, and whether the awaiting
\* closure still belongs to the instance on screen
NewCall(ep, caller) ==
    [ep |-> ep, caller |-> caller, authed |-> token # NoToken, live |-> TRUE]

CanCall(ep, caller) ==
    /\ Cardinality(calls) < MaxInFlight
    /\ NewCall(ep, caller) \notin calls

\* the closures of the components in `who` lose their instance
Detach(cs, who) ==
    {IF c.caller \in who THEN [c EXCEPT !.live = FALSE] ELSE c : c \in cs}

\* the answers the backend gives while the session is followed: a 2xx
\* needs a bearer token, except for the login itself
SessionErrors ==
    {r \in ErrorResponses :
        /\ r.status \in {401, 500}
        /\ r.statusText = "Server Error"
        /\ r.body.kind = "object"
        /\ r.body.detail = [t |-> "string", s |-> "Employee not found"]}

\* the tokens stored while the session is followed
SessionTokens == {tk \in Tokens : tk.kind = "nonnum" \/ tk.exp = 300}

Answers(c) ==
    SessionErrors \cup {NetworkError}
    \cup (IF c.ep = "/auth/token"
          THEN {r \in OkResponses(c.ep) :
                   r.data.access_token \in SessionTokens}
          ELSE IF c.authed THEN OkResponses(c.ep) ELSE {})

\* the history of failed checks is kept only where it is followed
Followed(t) == IF authMeFailedAt = -2 THEN -2 ELSE t

SessionInit ==
    /\ now = 0
    /\ token \in {NoToken} \cup SessionTokens
    /\ adminStatusCache = NoCache
    /\ href = "/login"
    /\ reloadPending = FALSE
    /\ page = "login"
    /\ calls = {}
    /\ protectedRoute = NoProtectedRoute
    /\ adminRoute = NoAdminRoute
    /\ navbar = NoNavbar
    /\ compliancePage = NoCompliancePage
    /\ apiCall = NoApiCall
    /\ lastSet = NoCache
    /\ afterLogout = FALSE

\* time passes
Tick ==
    /\ \E d \in TickSteps : now + d <= MaxNow /\ now' = now + d
    /\ UNCHANGED <<token, adminStatusCache, href, reloadPending, page, calls,
                   protectedRoute, adminRoute, navbar, compliancePage,
                   apiCall, lastSet, authMeFailedAt, afterLogout>>
    /\ UNCHANGED <<authCheck, complianceVars, pagesVars>>

\* the user follows a link or types an address
UserGoto ==
    /\ \E h \in {"/login", "/compliance", "/employees"} :
          h # href /\ href' = h
    /\ UNCHANGED <<now, token, adminStatusCache, reloadPending, page, calls,
                   protectedRoute, adminRoute, navbar, compliancePage,
                   apiCall, lastSet, authMeFailedAt, afterLogout>>
    /\ UNCHANGED <<authCheck, complianceVars, pagesVars>>

\* AppLayout: showNavbar = mounted && pathname !== '/login' && isAuthenticated()
NavbarAfter(target, auth) ==
    IF target # "login" /\ auth
    THEN IF navbar.pc = "absent"
         THEN [pc |-> "created", isAdmin |-> "null", userInfo |-> FALSE]
         ELSE navbar
    ELSE NoNavbar

\* the router shows the page of href: the old page's components unmount,
\* the new page renders for the first time, AppLayout renders again
Navigate ==
    /\ page # PageOf(href)
    /\ LET target == PageOf(href)
           auth == IF target = "login" THEN [value |-> FALSE, token |-> token]
                   ELSE isAuthenticated(token, now)
           nb == NavbarAfter(target, auth.value)
       IN  /\ page' = target
           /\ token' = auth.token
           /\ navbar' = nb
           /\ protectedRoute' =
                 IF target = "login" THEN NoProtectedRoute
                 ELSE [NoProtectedRoute EXCEPT !.present = TRUE]
           /\ adminRoute' = NoAdminRoute
           /\ compliancePage' =
                 IF target = "compliance"
                 THEN [NoCompliancePage EXCEPT !.pc = "created"]
                 ELSE NoCompliancePage
           /\ calls' = Detach(calls,
                 {"AdminRoute", "CompliancePage", "LoginPage"}
                 \cup IF nb.pc = "absent" THEN {"Navbar"} ELSE {})
    /\ UNCHANGED <<now, adminStatusCache, href, reloadPending, apiCall,
                   lastSet, authMeFailedAt, afterLogout>>
    /\ UNCHANGED <<authCheck, complianceVars, pagesVars>>

\* the full page load asked for by window.location.href = '/login': the
\* document is replaced, its requests are dropped and the modules are
\* evaluated again; localStorage stays
HardReload ==
    /\ reloadPending
    /\ reloadPending' = FALSE
    /\ href' = "/login"
    /\ page' = "login"
    /\ calls' = {}
    /\ adminStatusCache' = NoCache
    /\ lastSet' = NoCache
    /\ authMeFailedAt' = Followed(-1)
    /\ protectedRoute' = NoProtectedRoute
    /\ adminRoute' = NoAdminRoute
    /\ navbar' = NoNavbar
    /\ compliancePage' = NoCompliancePage
    /\ UNCHANGED <<now, token, apiCall, afterLogout>>
    /\ UNCHANGED <<authCheck, complianceVars, pagesVars>>

\* the session state left by an ApiClient method that ended with res:
\* on a 401, this.logout() and window.location.href = '/login'
AfterMethod(res) ==
    LET out == logout(token, adminStatusCache) IN
    [token |-> IF res.logout THEN out.token ELSE token,
     cache |-> IF res.logout THEN out.cache ELSE adminStatusCache,
     lastSet |-> IF res.logout THEN out.cache ELSE lastSet,
     failedAt |-> IF res.logout THEN -1 ELSE authMeFailedAt,
     afterLogout |-> IF res.logout THEN TRUE ELSE afterLogout,
     href |-> IF res.redirect THEN "/login" ELSE href,
     reloadPending |-> IF res.redirect THEN TRUE ELSE reloadPending]

\* -------------------------------------------------- protected-route.tsx
\* what ProtectedRoute returns: null before mounted, null when
\* isAuthenticated() is false, else the children
ProtectedRouteOutput(mounted, auth) ==
    IF ~mounted THEN "null"
    ELSE IF ~auth THEN "null"
    ELSE "children"

\* the mount effect: setMounted(true); not authenticated: push('/login')
\* and no interval; else the 5-minute interval is set
ProtectedRouteEffect ==
    /\ protectedRoute.present /\ ~protectedRoute.mounted
    /\ LET auth == isAuthenticated(token, now) IN
       /\ token' = auth.token
       /\ href' = IF auth.value THEN href ELSE "/login"
       /\ protectedRoute' = [protectedRoute EXCEPT
             !.mounted = TRUE,
             !.intervalAt = IF auth.value THEN now ELSE -1]
    /\ UNCHANGED <<now, adminStatusCache, reloadPending, page, calls,
                   adminRoute, navbar, compliancePage, apiCall, lastSet,
                   authMeFailedAt, afterLogout>>
    /\ UNCHANGED <<authCheck, complianceVars, pagesVars>>

\* a render of ProtectedRoute after the mount effect; children that are
\* no longer returned unmount
ProtectedRouteRender ==
    /\ protectedRoute.present /\ protectedRoute.mounted
    /\ LET auth == isAuthenticated(token, now)
           out == ProtectedRouteOutput(protectedRoute.mounted, auth.value)
       IN  /\ token' = auth.token
           /\ protectedRoute' = [protectedRoute EXCEPT !.shown = out]
           /\ adminRoute' = IF out = "null" THEN NoAdminRoute ELSE adminRoute
           /\ calls' = IF out = "null" THEN Detach(calls, {"AdminRoute"})
                       ELSE calls
    /\ UNCHANGED <<now, adminStatusCache, href, reloadPending, page, navbar,
                   compliancePage, apiCall, lastSet,
                   authMeFailedAt, afterLogout>>
    /\ UNCHANGED <<authCheck, complianceVars, pagesVars>>

\* the setInterval callback, every 5 minutes after the mount effect
ProtectedRouteInterval ==
    /\ protectedRoute.present /\ protectedRoute.intervalAt >= 0
    /\ now > protectedRoute.intervalAt
    /\ (now - protectedRoute.intervalAt) % (5 * 60 * 1000) = 0
    /\ LET auth == isAuthenticated(token, now) IN
       /\ token' = auth.token
       /\ href' = IF auth.value THEN href ELSE "/login"
    /\ UNCHANGED <<now, adminStatusCache, reloadPending, page, calls,
                   protectedRoute, adminRoute, navbar, compliancePage,
                   apiCall, lastSet, authMeFailedAt, afterLogout>>
    /\ UNCHANGED <<authCheck, complianceVars, pagesVars>>

\* ------------------------------------------------------ admin-route.tsx
\* what AdminRoute returns
AdminRouteOutput_optimistic(ar) ==
    IF ar.pc = "absent" THEN "none"
    ELSE IF ar.isAdmin = "false" /\ ~ar.isChecking THEN "null"
    ELSE "children"

AdminRouteOutput(ar) ==
    IF ar.pc = "absent" THEN "none"
    ELSE IF ar.pc = "created" THEN "null"               \* !mounted
    ELSE IF ar.isChecking \/ ar.isAdmin = "null" THEN "spinner"
    ELSE IF ar.isAdmin = "false" THEN "null"
    ELSE "children"

\* AdminRoute appears among the children ProtectedRoute renders: first
\* render with mounted = false
AdminRouteMount ==
    /\ page = "admin" /\ protectedRoute.shown = "children"
    /\ adminRoute.pc = "absent"
    /\ adminRoute' = [NoAdminRoute EXCEPT !.pc = "created"]
    /\ UNCHANGED <<now, token, adminStatusCache, href, reloadPending, page,
                   calls, protectedRoute, navbar, compliancePage, apiCall,
                   lastSet, authMeFailedAt, afterLogout>>
    /\ UNCHANGED <<authCheck, complianceVars, pagesVars>>

\* the effects of the first commit: setMounted(true); the second effect
\* returns at `if (!mounted) return`
AdminRouteFirstEffects ==
    /\ adminRoute.pc = "created"
    /\ adminRoute' = [adminRoute EXCEPT !.pc = "mounted"]
    /\ UNCHANGED <<now, token, adminStatusCache, href, reloadPending, page,
                   calls, protectedRoute, navbar, compliancePage, apiCall,
                   lastSet, authMeFailedAt, afterLogout>>
    /\ UNCHANGED <<authCheck, complianceVars, pagesVars>>

\* the second effect once mounted is true: the cached status decides, or
\* checkAdminStatus() sends GET /auth/me
AdminRouteEffect_nocache ==
    /\ adminRoute.pc = "mounted"
    /\ CanCall("/auth/me", "AdminRoute")
    /\ adminRoute' = [adminRoute EXCEPT !.pc = "checked"]
    /\ calls' = calls \cup {NewCall("/auth/me", "AdminRoute")}
    /\ UNCHANGED <<now, token, adminStatusCache, href, reloadPending, page,
                   protectedRoute, navbar, compliancePage, apiCall, lastSet,
                   authMeFailedAt, afterLogout>>
    /\ UNCHANGED <<authCheck, complianceVars, pagesVars>>

AdminRouteEffect ==
    /\ adminRoute.pc = "mounted"
    /\ LET cached == getCachedAdminStatus(adminStatusCache, now) IN
       /\ adminStatusCache' = cached.cache
       /\ IF cached.value # "null"
          THEN /\ adminRoute' = [adminRoute EXCEPT
                     !.pc = "checked", !.isAdmin = cached.value,
                     !.isChecking = FALSE, !.source = "cache",
                     !.verified = (cached.value = "true")]
               /\ href' = IF cached.value = "false" THEN "/compliance"
                          ELSE href
               /\ calls' = calls
          ELSE /\ CanCall("/auth/me", "AdminRoute")
               /\ adminRoute' = [adminRoute EXCEPT !.pc = "checked"]
               /\ href' = href
               /\ calls' = calls \cup {NewCall("/auth/me", "AdminRoute")}
    /\ UNCHANGED <<now, token, reloadPending, page, protectedRoute, navbar,
                   compliancePage, apiCall, lastSet,
                   authMeFailedAt, afterLogout>>
    /\ UNCHANGED <<authCheck, complianceVars, pagesVars>>

\* the catch of checkAdminStatus: setCachedAdminStatus(false)
checkFailed_cacheKept(cache, t) == cache
checkFailed(cache, t) == setCachedAdminStatus(FALSE, t)

\* GET /auth/me is answered: request() runs to its end, then
\* checkAdminStatus() continues after its await
AdminRouteContinue ==
    \E c \in calls : \E ans \in Answers(c) :
    LET res == Outcome(c.ep, ans)
        m == AfterMethod(res)
    IN
    /\ c.caller = "AdminRoute"
    /\ calls' = calls \ {c}
    /\ token' = m.token
    /\ afterLogout' = m.afterLogout
    /\ reloadPending' = m.reloadPending
    /\ IF ~c.live                                        \* !isMounted
       THEN /\ adminStatusCache' = m.cache
            /\ lastSet' = m.lastSet
            /\ authMeFailedAt' = Followed(m.failedAt)
            /\ href' = m.href
            /\ adminRoute' = adminRoute
       ELSE IF res.outcome = "resolved"
       THEN LET adminStatus == ans.data.is_admin IN
            /\ adminStatusCache' = setCachedAdminStatus(adminStatus, now)
            /\ lastSet' = setCachedAdminStatus(adminStatus, now)
            /\ authMeFailedAt' = Followed(m.failedAt)
            /\ href' = IF adminStatus THEN m.href ELSE "/compliance"
            /\ adminRoute' = [adminRoute EXCEPT
                  !.isAdmin = Tri(adminStatus), !.isChecking = FALSE,
                  !.source = "answer", !.verified = adminStatus]
       ELSE /\ href' = "/compliance"
            /\ adminStatusCache' = checkFailed(adminStatusCache, now)
            /\ lastSet' = setCachedAdminStatus(FALSE, now)
            /\ authMeFailedAt' = Followed(now)
            /\ adminRoute' = [adminRoute EXCEPT
                  !.isAdmin = "false", !.isChecking = FALSE,
                  !.source = "failure", !.verified = FALSE]
    /\ UNCHANGED <<now, page, protectedRoute, navbar, compliancePage,
                   apiCall>>
    /\ UNCHANGED <<authCheck, complianceVars, pagesVars>>

\* ----------------------------------------------------- layout/navbar.tsx
\* the mount effect: checkAdminStatus() up to its await
NavbarEffect ==
    /\ navbar.pc = "created"
    /\ CanCall("/auth/me", "Navbar")
    /\ LET cached == getCachedAdminStatus(adminStatusCache, now) IN
       /\ adminStatusCache' = cached.cache
       /\ navbar' = [navbar EXCEPT
             !.pc = "mounted",
             !.isAdmin = IF cached.value # "null" THEN cached.value ELSE @]
    /\ calls' = calls \cup {NewCall("/auth/me", "Navbar")}
    /\ UNCHANGED <<now, token, href, reloadPending, page, protectedRoute,
                   adminRoute, compliancePage, apiCall, lastSet,
                   authMeFailedAt, afterLogout>>
    /\ UNCHANGED <<authCheck, complianceVars, pagesVars>>

\* GET /auth/me is answered: request() runs to its end, then
\* checkAdminStatus() continues after its await; the state setters of an
\* instance that left the screen do nothing
NavbarContinue ==
    \E c \in calls : \E ans \in Answers(c) :
    LET res == Outcome(c.ep, ans)
        m == AfterMethod(res)
        adminStatus == res.outcome = "resolved" /\ ans.data.is_admin
    IN
    /\ c.caller = "Navbar"
    /\ calls' = calls \ {c}
    /\ token' = m.token
    /\ afterLogout' = m.afterLogout
    /\ reloadPending' = m.reloadPending
    /\ href' = m.href
    /\ adminStatusCache' = setCachedAdminStatus(adminStatus, now)
    /\ lastSet' = setCachedAdminStatus(adminStatus, now)
    /\ authMeFailedAt' = Followed(IF res.outcome = "resolved"
                                  THEN m.failedAt ELSE now)
    /\ navbar' = IF c.live
                 THEN [navbar EXCEPT
                         !.isAdmin = Tri(adminStatus),
                         !.userInfo = IF res.outcome = "resolved"
                                      THEN TRUE ELSE @]
                 ELSE navbar
    /\ UNCHANGED <<now, page, protectedRoute, adminRoute, compliancePage,
                   apiCall>>
    /\ UNCHANGED <<authCheck, complianceVars, pagesVars>>

\* Navbar.handleLogout: await apiClient.logout(); router.push('/login')
handleLogout ==
    /\ navbar.pc = "mounted"          \* the button is clicked after the commit
    /\ LET out == logout(token, adminStatusCache) IN
       /\ token' = out.token
       /\ adminStatusCache' = out.cache
       /\ lastSet' = out.cache
       /\ authMeFailedAt' = Followed(-1)
    /\ afterLogout' = TRUE
    /\ href' = "/login"
    /\ UNCHANGED <<now, reloadPending, page, calls, protectedRoute,
                   adminRoute, navbar, compliancePage, apiCall>>
    /\ UNCHANGED <<authCheck, complianceVars, pagesVars>>

\* ------------------------------------------- compliance page, /auth/me
\* the first effect of CompliancePage: GET /auth/me, the cache is not read
CompliancePageEffect ==
    /\ compliancePage.pc = "created"
    /\ CanCall("/auth/me", "CompliancePage")
    /\ compliancePage' = [compliancePage EXCEPT !.pc = "mounted"]
    /\ calls' = calls \cup {NewCall("/auth/me", "CompliancePage")}
    /\ UNCHANGED <<now, token, adminStatusCache, href, reloadPending, page,
                   protectedRoute, adminRoute, navbar, apiCall, lastSet,
                   authMeFailedAt, afterLogout>>
    /\ UNCHANGED <<authCheck, complianceVars, pagesVars>>

\* GET /auth/me is answered: setIsAdmin(!!me.is_admin), or
\* setIsAdmin(false) in the catch
CompliancePageContinue ==
    \E c \in calls : \E ans \in Answers(c) :
    LET res == Outcome(c.ep, ans)
        m == AfterMethod(res)
    IN
    /\ c.caller = "CompliancePage"
    /\ calls' = calls \ {c}
    /\ token' = m.token
    /\ adminStatusCache' = m.cache
    /\ lastSet' = m.lastSet
    /\ authMeFailedAt' = Followed(m.failedAt)
    /\ afterLogout' = m.afterLogout
    /\ reloadPending' = m.reloadPending
    /\ href' = m.href
    /\ compliancePage' =
          IF c.live
          THEN [compliancePage EXCEPT !.isAdmin =
                   res.outcome = "resolved" /\ ans.data.is_admin]
          ELSE compliancePage
    /\ UNCHANGED <<now, page, protectedRoute, adminRoute, navbar, apiCall>>
    /\ UNCHANGED <<authCheck, complianceVars, pagesVars>>

\* ---------------------------------------------------------- login page
\* LoginPage.handleSubmit up to `await apiClient.login(...)`
LoginSubmit ==
    /\ page = "login"
    /\ CanCall("/auth/token", "LoginPage")
    /\ calls' = calls \cup {NewCall("/auth/token", "LoginPage")}
    /\ UNCHANGED <<now, token, adminStatusCache, href, reloadPending, page,
                   protectedRoute, adminRoute, navbar, compliancePage,
                   apiCall, lastSet, authMeFailedAt, afterLogout>>
    /\ UNCHANGED <<authCheck, complianceVars, pagesVars>>

\* POST /auth/token is answered: request() runs to its end, ApiClient.login
\* stores the token, handleSubmit pushes '/employees'; a rejection only
\* shows the error
LoginContinue ==
    \E c \in calls : \E ans \in Answers(c) :
    LET res == Outcome(c.ep, ans)
        m == AfterMethod(res)
    IN
    /\ c.caller = "LoginPage"
    /\ calls' = calls \ {c}
    /\ adminStatusCache' = m.cache
    /\ lastSet' = m.lastSet
    /\ authMeFailedAt' = Followed(m.failedAt)
    /\ reloadPending' = m.reloadPending
    /\ IF res.outcome = "resolved"
       THEN /\ token' = ans.data.access_token
            /\ afterLogout' = FALSE
            /\ href' = "/employees"
       ELSE /\ token' = m.token
            /\ afterLogout' = m.afterLogout
            /\ href' = m.href
    /\ UNCHANGED <<now, page, protectedRoute, adminRoute, navbar,
                   compliancePage, apiCall>>
    /\ UNCHANGED <<authCheck, complianceVars, pagesVars>>

\* ------------------------------------- one ApiClient call, step by step
\* Any component calls any ApiClient method, from any session state; the
\* call is followed from the fetch to the settled promise and on to the
\* caller, which only reports the error (or, for login, stores the token).
NoAuthCheck == [ran |-> FALSE, before |-> NoToken, at |-> 0,
                value |-> FALSE, after |-> NoToken]

ApiInit ==
    /\ now = 0
    /\ token \in {NoToken} \cup Tokens
    /\ adminStatusCache \in
          {NoCache} \cup {setCachedAdminStatus(a, 0) : a \in BOOLEAN}
    /\ href \in {"/login", "/compliance", "/employees"}
    /\ reloadPending = FALSE
    /\ page = PageOf(href)
    /\ calls = {}
    /\ protectedRoute = NoProtectedRoute
    /\ adminRoute = NoAdminRoute
    /\ navbar = NoNavbar
    /\ compliancePage = NoCompliancePage
    /\ apiCall = NoApiCall
    /\ lastSet = adminStatusCache
    /\ authMeFailedAt = -2
    /\ afterLogout = FALSE

\* an ApiClient method is called and awaits its fetch
ApiSend ==
    /\ apiCall.st = "idle"
    /\ \E ep \in Endpoints : apiCall' = [NoApiCall EXCEPT !.st = "pending",
                                                          !.ep = ep]
    /\ UNCHANGED <<now, token, adminStatusCache, href, reloadPending, page,
                   calls, protectedRoute, adminRoute, navbar, compliancePage,
                   lastSet, authMeFailedAt, afterLogout>>
    /\ UNCHANGED <<authCheck, complianceVars, pagesVars>>

\* the fetch resolves with an answer and the method runs to its end
ApiRespond ==
    /\ apiCall.st = "pending"
    /\ \E resp \in ErrorResponses \cup OkResponses(apiCall.ep) :
       LET res == ClientMethod(apiCall.ep, resp)
           m == AfterMethod(res)
       IN  /\ apiCall' = [apiCall EXCEPT !.st = "settled", !.resp = resp,
                                         !.res = res]
           /\ token' = m.token
           /\ adminStatusCache' = m.cache
           /\ lastSet' = m.lastSet
           /\ authMeFailedAt' = Followed(m.failedAt)
           /\ afterLogout' = m.afterLogout
           /\ href' = m.href
           /\ reloadPending' = m.reloadPending
    /\ UNCHANGED <<now, page, calls, protectedRoute, adminRoute, navbar,
                   compliancePage>>
    /\ UNCHANGED <<authCheck, complianceVars, pagesVars>>

\* the fetch rejects
ApiFetchFails ==
    /\ apiCall.st = "pending"
    /\ apiCall' = [apiCall EXCEPT !.st = "settled",
                                  !.res = Outcome(apiCall.ep, NetworkError)]
    /\ UNCHANGED <<now, token, adminStatusCache, href, reloadPending, page,
                   calls, protectedRoute, adminRoute, navbar, compliancePage,
                   lastSet, authMeFailedAt, afterLogout>>
    /\ UNCHANGED <<authCheck, complianceVars, pagesVars>>

\* the caller's continuation; ApiClient.login stores the token first
ApiContinue ==
    /\ apiCall.st = "settled"
    /\ apiCall' = NoApiCall
    /\ IF apiCall.ep = "/auth/token" /\ apiCall.res.outcome = "resolved"
       THEN /\ token' = apiCall.resp.data.access_token
            /\ afterLogout' = FALSE
       ELSE UNCHANGED <<token, afterLogout>>
    /\ UNCHANGED <<now, adminStatusCache, href, reloadPending, page, calls,
                   protectedRoute, adminRoute, navbar, compliancePage,
                   lastSet, authMeFailedAt>>
    /\ UNCHANGED <<authCheck, complianceVars, pagesVars>>

ApiNext ==
    \/ ApiSend
    \/ ApiRespond
    \/ ApiFetchFails
    \/ ApiContinue

\* ------------------------------------------- isAuthenticated(), observed
\* Any token may sit in localStorage; isAuthenticated() is called at any
\* time and what it returned and left stored is kept.
AuthStart ==
    /\ now = 0
    /\ token \in {NoToken} \cup Tokens
    /\ adminStatusCache = NoCache
    /\ href = "/login"
    /\ reloadPending = FALSE
    /\ page = "login"
    /\ calls = {}
    /\ protectedRoute = NoProtectedRoute
    /\ adminRoute = NoAdminRoute
    /\ navbar = NoNavbar
    /\ compliancePage = NoCompliancePage
    /\ apiCall = NoApiCall
    /\ lastSet = NoCache
    /\ authMeFailedAt = -2
    /\ afterLogout = FALSE
    /\ authCheck = NoAuthCheck

\* setToken(token)
setToken ==
    /\ \E tk \in Tokens : tk # token /\ token' = tk
    /\ UNCHANGED <<now, adminStatusCache, href, reloadPending, page, calls,
                   protectedRoute, adminRoute, navbar, compliancePage,
                   apiCall, lastSet, authMeFailedAt, afterLogout, authCheck>>
    /\ UNCHANGED <<complianceVars, pagesVars>>

\* a call of isAuthenticated()
CallIsAuthenticated ==
    /\ LET r == isAuthenticated(token, now) IN
       /\ token' = r.token
       /\ authCheck' = [ran |-> TRUE, before |-> token, at |-> now,
                        value |-> r.value, after |-> r.token]
    /\ UNCHANGED <<now, adminStatusCache, href, reloadPending, page, calls,
                   protectedRoute, adminRoute, navbar, compliancePage,
                   apiCall, lastSet, authMeFailedAt, afterLogout>>
    /\ UNCHANGED <<complianceVars, pagesVars>>

AuthNext ==
    \/ Tick
    \/ setToken
    \/ CallIsAuthenticated

\* ------------------------------------------- compliance page, one tab
\* CompliancePage keeps the same state and the same code three times, for
\* the weekly, monthly and quarterly tab.  The tabs share nothing but
\* activeTab, so one tab (cpTab, any of the three) is followed; the fields
\* of cp are that tab's state variables.
MaxRequests == 3          \* compliance requests sent in one run
MaxPages == 2             \* largest total_pages the backend announces

Tabs == {"weekly", "monthly", "quarterly"}
StatusOptions == {"All", "Active"}
ExceptionOptions == {"All", "default"}
SearchTexts == {"", " ann"}

\* String.prototype.trim on the texts used here
Trim(str) == IF str = " ann" THEN "ann" ELSE str

\* the arguments load...Compliance(page) passes to apiClient
QueryOf(c, pg) ==
    [status |-> IF c.status = "All" THEN "undefined" ELSE c.status,
     search |-> IF Trim(c.debouncedSearch) = "" THEN "undefined"
                ELSE Trim(c.debouncedSearch),
     exception |-> IF c.exception # "All" THEN c.exception ELSE "undefined",
     page |-> pg]

NoQuery == [status |-> "undefined", search |-> "undefined",
            exception |-> "undefined", page |-> 0]

\* a 2xx body: current_employee present or not, the lengths of employees
\* and reportees (-1: reportees absent), total and total_pages
NoCompliance ==
    [null |-> TRUE, seq |-> 0, query |-> NoQuery, current_employee |-> FALSE,
     employees |-> 0, reportees |-> -1, total |-> 0, total_pages |-> 0]

\* what the backend answers: to an admin the employees and no
\* current_employee; to anyone else current_employee, the matching
\* reportees and no employees
Bodies2xx ==
    {[current_employee |-> FALSE, employees |-> e, reportees |-> r,
      total |-> e, total_pages |-> tp] :
        e \in 0..1, r \in {-1, 0}, tp \in 0..MaxPages}
    \cup {[current_employee |-> TRUE, employees |-> 0, reportees |-> r,
           total |-> IF r = 1 THEN 1 ELSE 0, total_pages |-> tp] :
        r \in {-1, 0, 1}, tp \in 0..MaxPages}

\* total_pages is 0 exactly when nothing matches, else 1 or MaxPages
ComplianceAnswers ==
    {b \in Bodies2xx : /\ (b.total = 0) = (b.total_pages = 0)
                        /\ b.total_pages \in {0, 1, MaxPages}}

\* the caller's role does not change while the page is followed
AnswersFor(admin) ==
    {b \in ComplianceAnswers : b.current_employee = ~admin}

\* hasActiveFilters of the render
hasActiveFilters(c) ==
    Trim(c.debouncedSearch) # "" \/ c.status # "All" \/ c.exception # "All"

\* showStatusException of the render
showStatusException(c) ==
    \/ ~c.compliance.current_employee       \* also when compliance is null
    \/ c.compliance.total > 0
    \/ c.compliance.reportees > 0
    \/ hasActiveFilters(c)

\* the search input is disabled
searchDisabled(c) ==
    c.compliance.current_employee /\ ~showStatusException(c)

\* what the tab shows below the filters:
\*   view   "loading", "empty" (no records found), "nomatch" (no employees
\*          match your search criteria) or "tables"
\*   my     the My Compliance table with the row of current_employee
\*   list   the second table: "none", "reportees" or "all", and its rows
TabView(view, my, list, rows) ==
    [view |-> view, my |-> my, list |-> list, rows |-> rows]

TabRender(c) ==
    LET d == c.compliance IN
    IF c.loading THEN TabView("loading", FALSE, "none", 0)
    ELSE IF d.null \/ (~d.current_employee /\ d.employees = 0)
    THEN TabView("empty", FALSE, "none", 0)
    ELSE IF /\ d.current_employee /\ d.employees = 0
            /\ d.reportees <= 0              \* absent or empty
            /\ hasActiveFilters(c)
    THEN TabView("nomatch", FALSE, "none", 0)
    ELSE TabView("tables", d.current_employee,
                 IF d.reportees > 0 \/ (~d.current_employee /\ d.employees > 0)
                 THEN IF d.current_employee THEN "reportees" ELSE "all"
                 ELSE "none",
                 \* (reportees || employees).map: an empty array is truthy
                 IF d.reportees > 0 \/ (~d.current_employee /\ d.employees > 0)
                 THEN IF d.reportees >= 0 THEN d.reportees ELSE d.employees
                 ELSE 0)

\* load...Compliance(pg) up to its await: setLoading(true) and the request
CanLoad == cpIssued < MaxRequests

Loading(c, pg) == [c EXCEPT !.loading = TRUE]

Request(c, pg) == [seq |-> cpIssued + 1, query |-> QueryOf(c, pg)]

\* the state after CompliancePage mounted: activeTab is 'weekly', every
\* loading flag is true, the debounce timers are armed, and the effect of
\* the weekly tab has called loadWeeklyCompliance(1)
NewTab ==
    [compliance |-> NoCompliance, loading |-> TRUE, status |-> "All",
     exception |-> "All", searchQuery |-> "", debouncedSearch |-> "",
     timer |-> TRUE, page |-> 1, totalPages |-> 0]

ComplianceInit ==
    /\ cpTab \in Tabs
    /\ activeTab = "weekly"
    /\ cp = NewTab
    /\ cpPending = IF cpTab = "weekly"
                   THEN {[seq |-> 1, query |-> QueryOf(NewTab, 1)]} ELSE {}
    /\ cpIssued = IF cpTab = "weekly" THEN 1 ELSE 0
    /\ cpLastOk = 0
    /\ cpMaxOk = 0

\* the session around the page: a signed-in user on /compliance
ComplianceStart ==
    /\ now = 0
    /\ token = [kind |-> "num", exp |-> 300]
    /\ adminStatusCache = NoCache
    /\ href = "/compliance"
    /\ reloadPending = FALSE
    /\ page = "compliance"
    /\ calls = {}
    /\ protectedRoute = [present |-> TRUE, mounted |-> TRUE,
                         shown |-> "children", intervalAt |-> 0]
    /\ adminRoute = NoAdminRoute
    /\ navbar = NoNavbar
    \* GET /auth/me was answered: the caller is an admin or is not
    /\ compliancePage \in {[pc |-> "mounted", isAdmin |-> a] : a \in BOOLEAN}
    /\ apiCall = NoApiCall
    /\ lastSet = NoCache
    /\ authMeFailedAt = -2
    /\ afterLogout = FALSE
    /\ authCheck = NoAuthCheck

\* the page is not followed
ComplianceIdle ==
    /\ cpTab = "weekly"
    /\ activeTab = "weekly"
    /\ cp = NewTab
    /\ cpPending = {}
    /\ cpIssued = 0
    /\ cpLastOk = 0
    /\ cpMaxOk = 0

\* the effect on [activeTab, filters, debounced search] of the tab, after a
\* render in which one of them changed: if the tab is active, setPage(1)
\* and load...Compliance(1)
FilterEffect(c, tabNow) ==
    IF tabNow = cpTab
    THEN /\ CanLoad
         /\ cp' = [Loading(c, 1) EXCEPT !.page = 1]
         /\ cpPending' = cpPending \cup {Request(c, 1)}
         /\ cpIssued' = cpIssued + 1
    ELSE /\ cp' = c
         /\ UNCHANGED <<cpPending, cpIssued>>

\* Tabs.onValueChange: setActiveTab(value)
setActiveTab ==
    /\ \E t \in Tabs :
          /\ t # activeTab
          /\ activeTab' = t
          /\ FilterEffect(cp, t)
    /\ UNCHANGED <<cpTab, cpLastOk, cpMaxOk>>
    /\ UNCHANGED <<sessionVars, authCheck, pagesVars>>

\* the Status select, shown while showStatusException
setStatus ==
    /\ activeTab = cpTab /\ showStatusException(cp)
    /\ \E v \in StatusOptions :
          /\ v # cp.status
          /\ FilterEffect([cp EXCEPT !.status = v], activeTab)
    /\ UNCHANGED <<cpTab, activeTab, cpLastOk, cpMaxOk>>
    /\ UNCHANGED <<sessionVars, authCheck, pagesVars>>

\* the Exception select, shown while showStatusException
setException ==
    /\ activeTab = cpTab /\ showStatusException(cp)
    /\ \E v \in ExceptionOptions :
          /\ v # cp.exception
          /\ FilterEffect([cp EXCEPT !.exception = v], activeTab)
    /\ UNCHANGED <<cpTab, activeTab, cpLastOk, cpMaxOk>>
    /\ UNCHANGED <<sessionVars, authCheck, pagesVars>>

\* the search input: setSearchQuery; the debounce effect clears the old
\* timer and arms a new one
setSearchQuery ==
    /\ activeTab = cpTab /\ ~searchDisabled(cp)
    /\ \E v \in SearchTexts :
          /\ v # cp.searchQuery
          /\ cp' = [cp EXCEPT !.searchQuery = v, !.timer = TRUE]
    /\ UNCHANGED <<cpTab, activeTab, cpPending, cpIssued, cpLastOk, cpMaxOk>>
    /\ UNCHANGED <<sessionVars, authCheck, pagesVars>>

\* the debounce timer fires: setDebouncedSearch(searchQuery); a changed
\* value runs the filter effect
DebounceFires ==
    /\ cp.timer
    /\ LET c == [cp EXCEPT !.timer = FALSE,
                           !.debouncedSearch = cp.searchQuery] IN
       IF cp.searchQuery # cp.debouncedSearch
       THEN FilterEffect(c, activeTab)
       ELSE /\ cp' = c
            /\ UNCHANGED <<cpPending, cpIssued>>
    /\ UNCHANGED <<cpTab, activeTab, cpLastOk, cpMaxOk>>
    /\ UNCHANGED <<sessionVars, authCheck, pagesVars>>

\* Previous / Next, rendered while totalPages > 1
PreviousPage ==
    /\ activeTab = cpTab /\ cp.totalPages > 1 /\ cp.page # 1
    /\ CanLoad
    /\ LET pg == IF cp.page - 1 > 1 THEN cp.page - 1 ELSE 1 IN
       /\ cp' = Loading(cp, pg)
       /\ cpPending' = cpPending \cup {Request(cp, pg)}
    /\ cpIssued' = cpIssued + 1
    /\ UNCHANGED <<cpTab, activeTab, cpLastOk, cpMaxOk>>
    /\ UNCHANGED <<sessionVars, authCheck, pagesVars>>

NextPage ==
    /\ activeTab = cpTab /\ cp.totalPages > 1 /\ cp.page # cp.totalPages
    /\ CanLoad
    /\ LET pg == IF cp.page + 1 < cp.totalPages THEN cp.page + 1
                 ELSE cp.totalPages IN
       /\ cp' = Loading(cp, pg)
       /\ cpPending' = cpPending \cup {Request(cp, pg)}
    /\ cpIssued' = cpIssued + 1
    /\ UNCHANGED <<cpTab, activeTab, cpLastOk, cpMaxOk>>
    /\ UNCHANGED <<sessionVars, authCheck, pagesVars>>

\* load...Compliance after its await, on a 2xx answer: setCompliance(data);
\* setTotalPages(data.total_pages); setPage(page); finally setLoading(false)
Applied(c, r, b) ==
    [c EXCEPT !.compliance =
                 [null |-> FALSE, seq |-> r.seq, query |-> r.query,
                  current_employee |-> b.current_employee,
                  employees |-> b.employees, reportees |-> b.reportees,
                  total |-> b.total, total_pages |-> b.total_pages],
              !.totalPages = b.total_pages,
              !.page = r.query.page,
              !.loading = FALSE]

LoadResolves_latestOnly ==
    /\ \E r \in cpPending : \E b \in AnswersFor(compliancePage.isAdmin) :
          /\ cpPending' = cpPending \ {r}
          /\ cp' = IF r.seq > cp.compliance.seq THEN Applied(cp, r, b)
                   ELSE [cp EXCEPT !.loading = FALSE]
          /\ cpLastOk' = r.seq
          /\ cpMaxOk' = IF r.seq > cpMaxOk THEN r.seq ELSE cpMaxOk
    /\ UNCHANGED <<cpTab, activeTab, cpIssued>>
    /\ UNCHANGED <<sessionVars, authCheck, pagesVars>>

LoadResolves ==
    /\ \E r \in cpPending : \E b \in AnswersFor(compliancePage.isAdmin) :
          /\ cpPending' = cpPending \ {r}
          /\ cp' = Applied(cp, r, b)
          /\ cpLastOk' = r.seq
          /\ cpMaxOk' = IF r.seq > cpMaxOk THEN r.seq ELSE cpMaxOk
    /\ UNCHANGED <<cpTab, activeTab, cpIssued>>
    /\ UNCHANGED <<sessionVars, authCheck, pagesVars>>

\* the request fails: toast.error; finally setLoading(false)
LoadRejects ==
    /\ \E r \in cpPending :
          /\ cpPending' = cpPending \ {r}
          /\ cp' = [cp EXCEPT !.loading = FALSE]
    /\ UNCHANGED <<cpTab, activeTab, cpIssued, cpLastOk, cpMaxOk>>
    /\ UNCHANGED <<sessionVars, authCheck, pagesVars>>

ComplianceNext ==
    \/ setActiveTab
    \/ setStatus
    \/ setException
    \/ setSearchQuery
    \/ DebounceFires
    \/ PreviousPage
    \/ NextPage
    \/ LoadResolves
    \/ LoadRejects

\* ------------------------------------------- debounced search inputs
\* The debounce effect of CompliancePage (one per tab) and of EmployeesPage:
\* on every change of the search text the cleanup clears the timer of the
\* previous render and a new 500 ms timer is set, whose callback copies the
\* text of its render into the debounced state.  A changed debounced text
\* runs the page's filter effect, which requests page 1.
MaxClock == 1500          \* the clock (ms) of the search input stops here
MaxKeys == 4              \* keystrokes in one run

DEBOUNCE_MS == 500
ClockSteps == {250}
DebounceTexts == {"", "a", " ann"}

NoDebounce ==
    [now |-> 0, gate |-> FALSE, searchQuery |-> "", debounced |-> "",
     timers |-> {}, keys |-> 0, lastChange |-> 0, burst |-> 0,
     sinceChange |-> 0, sent |-> <<>>]

DebounceIdle == debounce = NoDebounce

\* the timer set by a render in which the search text is v
NewTimer(v, t) == [value |-> v, at |-> t + DEBOUNCE_MS]

\* after mount: the effect of the first render has set its timer; gate
\* tells whether the page's filter effect fetches (the tab is the active
\* one; on the Employees page, the cached admin status is true)
DebounceInit ==
    \E g \in BOOLEAN :
       debounce = [NoDebounce EXCEPT !.gate = g,
                                     !.timers = {NewTimer("", 0)}]

\* time passes; a timer callback may run later than its delay, not sooner
DebounceTick ==
    /\ \E d \in ClockSteps :
          /\ debounce.now + d <= MaxClock
          /\ debounce' = [debounce EXCEPT !.now = @ + d]
    /\ UNCHANGED except_debounce

\* a keystroke: setSearchQuery(v); the effect's cleanup clears the old
\* timer, the effect sets a new one
Keystroke_keepTimer ==
    /\ debounce.keys < MaxKeys
    /\ \E v \in DebounceTexts :
          /\ v # debounce.searchQuery
          /\ debounce' = [debounce EXCEPT
                !.searchQuery = v,
                !.keys = @ + 1,
                !.timers = @ \cup {NewTimer(v, debounce.now)},
                !.lastChange = debounce.now,
                !.burst = IF debounce.timers = {} THEN 1 ELSE @ + 1,
                !.sinceChange = 0]
    /\ UNCHANGED except_debounce

Keystroke ==
    /\ debounce.keys < MaxKeys
    /\ \E v \in DebounceTexts :
          /\ v # debounce.searchQuery
          /\ debounce' = [debounce EXCEPT
                !.searchQuery = v,
                !.keys = @ + 1,
                !.timers = {NewTimer(v, debounce.now)},
                !.lastChange = debounce.now,
                !.burst = IF debounce.timers = {} THEN 1 ELSE @ + 1,
                !.sinceChange = 0]
    /\ UNCHANGED except_debounce

\* the search parameter of the request, as load...Compliance and
\* fetchEmployees compute it: debounced.trim() || undefined
SearchParam(text) ==
    QueryOf([status |-> "All", exception |-> "All",
             debouncedSearch |-> text], 1).search

\* a timer callback: setDebouncedSearch(text of its render); a changed
\* debounced text runs the filter effect, which requests page 1
TimerFires ==
    /\ \E t \in debounce.timers :
          /\ debounce.now >= t.at
          /\ debounce' = [debounce EXCEPT
                !.timers = @ \ {t},
                !.debounced = t.value,
                !.burst = IF debounce.timers = {t} THEN 0 ELSE @,
                !.sinceChange =
                    IF t.value # debounce.debounced /\ debounce.gate
                    THEN @ + 1 ELSE @,
                !.sent =
                    IF t.value # debounce.debounced /\ debounce.gate
                    THEN Append(@, [search |-> SearchParam(t.value),
                                    at |-> debounce.now,
                                    burst |-> debounce.burst])
                    ELSE @]
    /\ UNCHANGED except_debounce

DebounceNext ==
    \/ DebounceTick
    \/ Keystroke
    \/ TimerFires

\* ------------------------------------- components/exception-dialog.tsx
\* The dialog of the exceptions page.  Texts of the number field are
\* sequences of characters, so that parseInt and the generated name are
\* computed from the characters typed.
ExceptionPeriods == {"weekly", "monthly", "quarterly"}
SpecialTypes == {"default", "other"}
Digits == {"0", "1", "2", "3", "4", "5", "6", "7", "8", "9"}

DigitValue(ch) ==
    CASE ch = "0" -> 0 [] ch = "1" -> 1 [] ch = "2" -> 2 [] ch = "3" -> 3
      [] ch = "4" -> 4 [] ch = "5" -> 5 [] ch = "6" -> 6 [] ch = "7" -> 7
      [] ch = "8" -> 8 [] ch = "9" -> 9

\* what an <input type="number"> can hand to onChange: the empty string or
\* a valid floating-point number
NumberTexts ==
    {<<>>, <<"4">>, <<"0">>, <<"0", "4">>, <<"-", "4">>,
     <<"4", ".", "5">>, <<"4", "e", "1">>}

RECURSIVE Str(_)
Str(text) == IF text = <<>> THEN "" ELSE Head(text) \o Str(Tail(text))

RECURSIVE DigitsPrefix(_)
DigitsPrefix(text) ==
    IF text = <<>> \/ Head(text) \notin Digits THEN <<>>
    ELSE <<Head(text)>> \o DigitsPrefix(Tail(text))

AfterDigits(text) == SubSeq(text, Len(DigitsPrefix(text)) + 1, Len(text))

RECURSIVE DecimalValue(_)
DecimalValue(ds) ==
    IF ds = <<>> THEN 0
    ELSE 10 * DecimalValue(SubSeq(ds, 1, Len(ds) - 1)) + DigitValue(ds[Len(ds)])

Signed(text) == text # <<>> /\ Head(text) \in {"-", "+"}
Unsigned(text) == IF Signed(text) THEN Tail(text) ELSE text

\* parseInt(string): an optional sign and the longest prefix of digits;
\* what follows the digits is ignored
parseInt(text) ==
    LET ds == DigitsPrefix(Unsigned(text)) IN
    IF ds = <<>> THEN NaN
    ELSE IF Head(text) = "-" THEN Num(0 - DecimalValue(ds))
    ELSE Num(DecimalValue(ds))

isNaN(x) == x.nan

RECURSIVE Pow10(_)
Pow10(n) == IF n <= 0 THEN 1 ELSE 10 * Pow10(n - 1)

\* the number a valid floating-point text denotes, as mant / 10^scale
valueAsNumber(text) ==
    LET rest == Unsigned(text)
        ip == DigitsPrefix(rest)
        r1 == AfterDigits(rest)
        hasFrac == r1 # <<>> /\ Head(r1) = "."
        fp == IF hasFrac THEN DigitsPrefix(Tail(r1)) ELSE <<>>
        r2 == IF hasFrac THEN AfterDigits(Tail(r1)) ELSE r1
        ex == IF r2 # <<>> /\ Head(r2) \in {"e", "E"}
              THEN parseInt(Tail(r2)).v ELSE 0
        mant == DecimalValue(ip \o fp)
    IN [mant |-> IF Head(text) = "-" THEN 0 - mant ELSE mant,
        scale |-> Len(fp) - ex]

\* <Input id="number" type="number" min="1" required>: the form is
\* submitted (onSubmit runs) only if the field has a value, the value is
\* at least 1 and it is a whole number of steps (of 1) from the minimum
checkValidity(text) ==
    /\ text # <<>>
    /\ LET n == valueAsNumber(text) IN
       IF n.scale <= 0 THEN n.mant * Pow10(0 - n.scale) >= 1
       ELSE n.mant >= Pow10(n.scale) /\ n.mant % Pow10(n.scale) = 0

\* `${period}_${number}_day`
FormatName(period, number) == period \o "_" \o Str(number) \o "_day"

\* the rows of the exceptions page an edit can start from
NoException == [id |-> 0, name |-> ""]
Exceptions ==
    {[id |-> 1, name |-> "monthly_4_day"], [id |-> 2, name |-> "Default"],
     [id |-> 3, name |-> "legacy"]}

toLowerCase(name) ==
    CASE name = "Default" -> "default"
      [] name = "Other" -> "other"
      [] OTHER -> name

\* exception.name.match(/^(weekly|monthly|quarterly)_(\d+)_day$/)
NameMatch(name) ==
    {m \in ExceptionPeriods \X {t \in NumberTexts :
                                  t # <<>> /\ DigitsPrefix(t) = t} :
        name = FormatName(m[1], m[2])}

FormState(type, period, number, name, specialType) ==
    [exceptionType |-> type,
     formData |-> [period |-> period, number |-> number, name |-> name,
                   specialType |-> specialType]]

\* the effect on [exception, open]
InitEffect(exception) ==
    IF exception # NoException
    THEN IF toLowerCase(exception.name) \in {"default", "other"}
         THEN FormState("special", "weekly", <<>>,
                        toLowerCase(exception.name),
                        toLowerCase(exception.name))
         ELSE IF NameMatch(exception.name) # {}
         THEN LET m == CHOOSE m \in NameMatch(exception.name) : TRUE IN
              FormState("format", m[1], m[2], exception.name, "default")
         ELSE FormState("format", "weekly", <<>>, exception.name, "default")
    ELSE FormState("format", "weekly", <<>>, "", "default")

\* the effect on [period, number, specialType, exceptionType]
NameEffect(f) ==
    IF f.exceptionType = "special"
    THEN [f EXCEPT !.formData.name = f.formData.specialType]
    ELSE IF f.formData.number # <<>>
         THEN [f EXCEPT !.formData.name =
                           FormatName(f.formData.period, f.formData.number)]
         ELSE [f EXCEPT !.formData.name = ""]

NameDeps(f) ==
    <<f.formData.period, f.formData.number, f.formData.specialType,
      f.exceptionType>>

\* a render after `next` replaced `prev`: the name effect runs when one of
\* its dependencies changed
Rendered(prev, next) ==
    IF NameDeps(next) # NameDeps(prev) THEN NameEffect(next) ELSE next

FormOf(d) == [exceptionType |-> d.exceptionType, formData |-> d.formData]

\* apiClient.createException / updateException: the request made
NoRequest == [method |-> "none", path |-> <<>>, body |-> [name |-> ""]]
createException(exception) ==
    [method |-> "POST", path |-> <<"exceptions">>, body |-> exception]
updateException_otherBody(exceptionId, exception) ==
    [method |-> "PUT", path |-> <<"exceptions", exceptionId>>,
     body |-> [id |-> exceptionId, name |-> exception.name]]
updateException(exceptionId, exception) ==
    [method |-> "PUT", path |-> <<"exceptions", exceptionId>>,
     body |-> exception]

\* the dialog as ExceptionsPage mounts it: closed, nothing edited
NoDialog ==
    [open |-> FALSE, exception |-> NoException, loading |-> FALSE,
     exceptionType |-> "format",
     formData |-> [period |-> "weekly", number |-> <<>>, name |-> "",
                   specialType |-> "default"],
     request |-> NoRequest, submit |-> "none"]

ExceptionDialogIdle == exceptionDialog = NoDialog

\* open or close the dialog for `exception`; the effect on
\* [exception, open] resets the form
Shown(d, open, exception) ==
    LET f == Rendered(FormOf(d), InitEffect(exception)) IN
    [d EXCEPT !.open = open, !.exception = exception,
              !.exceptionType = f.exceptionType, !.formData = f.formData]

\* a field of the form changed
Changed(d, next) ==
    LET f == Rendered(FormOf(d), next) IN
    [d EXCEPT !.exceptionType = f.exceptionType, !.formData = f.formData]

handleCreate ==
    /\ ~exceptionDialog.open
    /\ exceptionDialog' =
          [Shown(exceptionDialog, TRUE, NoException) EXCEPT !.submit = "none"]
    /\ UNCHANGED except_exceptionDialog

handleEdit ==
    /\ ~exceptionDialog.open
    /\ \E e \in Exceptions :
          exceptionDialog' =
             [Shown(exceptionDialog, TRUE, e) EXCEPT !.submit = "none"]
    /\ UNCHANGED except_exceptionDialog

\* Cancel (disabled while loading), Escape or a click outside
handleDialogClose ==
    /\ exceptionDialog.open
    /\ exceptionDialog' =
          [Shown(exceptionDialog, FALSE, NoException) EXCEPT !.submit = "none"]
    /\ UNCHANGED except_exceptionDialog

setExceptionType ==
    /\ exceptionDialog.open
    /\ \E v \in {"format", "special"} :
          /\ v # exceptionDialog.exceptionType
          /\ exceptionDialog' =
                Changed(exceptionDialog,
                        [FormOf(exceptionDialog) EXCEPT !.exceptionType = v])
    /\ UNCHANGED except_exceptionDialog

setSpecialType ==
    /\ exceptionDialog.open
    /\ exceptionDialog.exceptionType = "special"
    /\ \E v \in SpecialTypes :
          /\ v # exceptionDialog.formData.specialType
          /\ exceptionDialog' =
                Changed(exceptionDialog,
                        [FormOf(exceptionDialog)
                            EXCEPT !.formData.specialType = v])
    /\ UNCHANGED except_exceptionDialog

setPeriod ==
    /\ exceptionDialog.open
    /\ exceptionDialog.exceptionType = "format"
    /\ \E v \in ExceptionPeriods :
          /\ v # exceptionDialog.formData.period
          /\ exceptionDialog' =
                Changed(exceptionDialog,
                        [FormOf(exceptionDialog) EXCEPT !.formData.period = v])
    /\ UNCHANGED except_exceptionDialog

setNumber ==
    /\ exceptionDialog.open
    /\ exceptionDialog.exceptionType = "format"
    /\ \E v \in NumberTexts :
          /\ v # exceptionDialog.formData.number
          /\ exceptionDialog' =
                Changed(exceptionDialog,
                        [FormOf(exceptionDialog) EXCEPT !.formData.number = v])
    /\ UNCHANGED except_exceptionDialog

\* handleSubmit up to its await: "rejected" with a toast, or the request
Submitted(d) ==
    IF /\ d.exceptionType = "format"
       /\ \/ d.formData.number = <<>>
          \/ LET num == parseInt(d.formData.number) IN
             isNaN(num) \/ num.v <= 0
    THEN [d EXCEPT !.submit = "rejected"]
    ELSE [d EXCEPT !.submit = "sent", !.loading = TRUE,
                   !.request =
                      IF d.exception # NoException
                      THEN updateException(d.exception.id,
                                           [name |-> d.formData.name])
                      ELSE createException([name |-> d.formData.name])]

\* the submit button (disabled while loading) of a form the browser
\* finds valid
handleSubmit ==
    /\ exceptionDialog.open
    /\ ~exceptionDialog.loading
    /\ exceptionDialog.exceptionType = "format"
          => checkValidity(exceptionDialog.formData.number)
    /\ exceptionDialog' = Submitted(exceptionDialog)
    /\ UNCHANGED except_exceptionDialog

\* the awaited call resolves: onClose(), then finally setLoading(false)
SubmitResolves ==
    /\ exceptionDialog.request # NoRequest
    /\ exceptionDialog' =
          [Shown(exceptionDialog, FALSE, NoException)
              EXCEPT !.loading = FALSE, !.request = NoRequest,
                     !.submit = "none"]
    /\ UNCHANGED except_exceptionDialog

\* the awaited call rejects: a toast, then finally setLoading(false)
SubmitRejects ==
    /\ exceptionDialog.request # NoRequest
    /\ exceptionDialog' =
          [exceptionDialog EXCEPT !.loading = FALSE, !.request = NoRequest,
                                  !.submit = "none"]
    /\ UNCHANGED except_exceptionDialog

ExceptionDialogNext ==
    \/ handleCreate \/ handleEdit \/ handleDialogClose
    \/ setExceptionType \/ setSpecialType \/ setPeriod \/ setNumber
    \/ handleSubmit \/ SubmitResolves \/ SubmitRejects


\* ------------------------- app/attendance/page.tsx, UploadPage (layout.tsx)
\* The two upload pages.  UploadPage has the file, the upload and its
\* result; AttendancePage adds the last-upload info and 'Delete All'.
\* File names are sequences of characters.
MaxDeletes == 1           \* deletions (with their re-fetch) under way at once

FileNames ==
    {<<"a", ".", "x", "l", "s", "x">>, <<"a", ".", "X", "L", "S">>,
     <<"a", ".", "x", "l", "s", ".", "t">>, <<"a", ".", "c", "s", "v">>,
     <<"x", "l", "s">>, <<"a", ".", "b", ".", "x", "l", "s">>}
NoFile == <<>>

RECURSIVE lastIndexOf(_, _)
\* String.prototype.lastIndexOf, 0-based, -1 when absent
lastIndexOf(name, ch) ==
    IF name = <<>> THEN -1
    ELSE IF name[Len(name)] = ch THEN Len(name) - 1
    ELSE lastIndexOf(SubSeq(name, 1, Len(name) - 1), ch)

\* String.prototype.substring(start): a negative start counts as 0
substring(name, start) ==
    SubSeq(name, (IF start < 0 THEN 0 ELSE start) + 1, Len(name))

LowerChar(ch) ==
    CASE ch = "X" -> "x" [] ch = "L" -> "l" [] ch = "S" -> "s"
      [] OTHER -> ch
NameToLowerCase(name) == [i \in 1..Len(name) |-> LowerChar(name[i])]

validExtensions == {<<".", "x", "l", "s", "x">>, <<".", "x", "l", "s">>}

fileExtension(name) ==
    NameToLowerCase(substring(name, lastIndexOf(name, ".")))

\* the check of handleFileChange and handleDrop
validFile_anyDot(name) ==
    \E i \in 1..(Len(name) - 3) :
        NameToLowerCase(SubSeq(name, i, i + 3)) = <<".", "x", "l", "s">>
validFile(name) == fileExtension(name) \in validExtensions

UploadPages == {"attendance", "upload"}

\* the page after its mount: AttendancePage has called
\* loadLastUploadInfo(), UploadPage has nothing to load
NoAttendance ==
    [page |-> "none", file |-> NoFile, uploading |-> FALSE,
     uploadResult |-> "null", message |-> "", lastUploadInfo |-> "null",
     loadingInfo |-> FALSE, isDeleteDialogOpen |-> FALSE, deleting |-> FALSE,
     upload |-> NoFile, info |-> {}, deletes |-> 0, reloads |-> 0,
     event |-> "none", arg |-> NoFile]

AttendanceIdle == attendance = NoAttendance

NewAttendance(pg) ==
    [NoAttendance EXCEPT !.page = pg,
                         !.loadingInfo = (pg = "attendance"),
                         !.info = IF pg = "attendance" THEN {"mount"} ELSE {}]

AttendanceInit == attendance \in {NewAttendance(pg) : pg \in UploadPages}

Event(a, e) == [a EXCEPT !.event = e, !.arg = NoFile]

\* loadLastUploadInfo() up to its await
loadLastUploadInfo(a, by) ==
    [a EXCEPT !.loadingInfo = TRUE,
              !.info = IF by = "delete" THEN @ ELSE @ \cup {by},
              !.reloads = IF by = "delete" THEN @ + 1 ELSE @]

\* handleFileChange / handleDrop with the file `name`
Offered(a, name) ==
    IF ~validFile(name)
    THEN [a EXCEPT !.event = "rejected", !.arg = name]
    ELSE [a EXCEPT !.file = name, !.uploadResult = "null", !.message = "",
                   !.event = "accepted", !.arg = name]

handleFileChange ==
    /\ attendance.page \in UploadPages
    /\ \E name \in FileNames : attendance' = Offered(attendance, name)
    /\ UNCHANGED except_attendance

handleDrop ==
    /\ attendance.page \in UploadPages
    /\ \E name \in FileNames : attendance' = Offered(attendance, name)
    /\ UNCHANGED except_attendance

\* the 'Remove File' button
RemoveFile ==
    /\ attendance.file # NoFile
    /\ attendance' = Event([attendance EXCEPT !.file = NoFile], "remove")
    /\ UNCHANGED except_attendance

\* the upload button: disabled={!file || uploading}
handleUpload ==
    /\ attendance.file # NoFile
    /\ ~attendance.uploading
    /\ attendance' =
          Event([attendance EXCEPT !.uploading = TRUE,
                                   !.uploadResult = "null",
                                   !.message = "",
                                   !.upload = attendance.file], "upload")
    /\ UNCHANGED except_attendance

\* result.message of a 2xx answer of POST /attendance/upload
UploadedMessage == "Attendance data uploaded"

\* the upload resolves: the result, setFile(null) and, on AttendancePage,
\* `await loadLastUploadInfo()` before finally
UploadResolves ==
    /\ attendance.upload # NoFile
    /\ LET a == [attendance EXCEPT !.uploadResult = "success",
                                   !.message = UploadedMessage,
                                   !.file = NoFile, !.upload = NoFile] IN
       attendance' =
          Event(IF attendance.page = "attendance"
                THEN loadLastUploadInfo(a, "upload")
                ELSE [a EXCEPT !.uploading = FALSE], "uploaded")
    /\ UNCHANGED except_attendance

\* the catch of handleUpload with the Error thrown by uploadAttendance, then
\* finally: setUploadResult({success: false, message}); setUploading(false)
UploadFailed_clearsFile(a, message) ==
    [a EXCEPT !.uploadResult = "failure", !.message = message,
              !.file = NoFile, !.upload = NoFile, !.uploading = FALSE]
UploadFailed(a, message) ==
    [a EXCEPT !.uploadResult = "failure", !.message = message,
              !.upload = NoFile, !.uploading = FALSE]

\* what the backend, or the network, can answer to a rejected upload
UploadErrors == ErrorResponses \cup {NetworkError}

UploadRejects ==
    /\ attendance.upload # NoFile
    /\ \E ans \in UploadErrors :
          LET thrown == Outcome("/attendance/upload", ans).message IN
          attendance' =
             [UploadFailed(attendance, thrown)
                 EXCEPT !.event = "uploadFailed", !.arg = <<thrown>>]
    /\ UNCHANGED except_attendance

\* {lastUploadInfo?.has_upload && <Button>Delete All</Button>}
DeleteAllOffered(a) == a.lastUploadInfo = "has_upload"

OpenDeleteDialog ==
    /\ DeleteAllOffered(attendance)
    /\ ~attendance.isDeleteDialogOpen
    /\ attendance' =
          Event([attendance EXCEPT !.isDeleteDialogOpen = TRUE], "dialog")
    /\ UNCHANGED except_attendance

CancelDelete ==
    /\ attendance.isDeleteDialogOpen
    /\ attendance' =
          Event([attendance EXCEPT !.isDeleteDialogOpen = FALSE], "cancel")
    /\ UNCHANGED except_attendance

\* apiClient.deleteAllAttendance(): a request that resolves or rejects
deleteAllAttendance(a) == [a EXCEPT !.deletes = @ + 1]

\* ConfirmationDialog.handleConfirm: onConfirm() (handleDeleteAll up to its
\* await), then onOpenChange(false)
handleDeleteAll ==
    /\ attendance.isDeleteDialogOpen
    /\ attendance.deletes + attendance.reloads < MaxDeletes
    /\ attendance' =
          Event([deleteAllAttendance(attendance)
                    EXCEPT !.deleting = TRUE,
                           !.isDeleteDialogOpen = FALSE], "confirm")
    /\ UNCHANGED except_attendance

\* handleDeleteAll after the deletion resolved: the toast and
\* `await loadLastUploadInfo()`
DeleteResolved_noReload(a) ==
    [a EXCEPT !.deletes = @ - 1, !.deleting = FALSE,
              !.isDeleteDialogOpen = FALSE]
DeleteResolved(a) ==
    loadLastUploadInfo([a EXCEPT !.deletes = @ - 1], "delete")

DeleteResolves ==
    /\ attendance.deletes > 0
    /\ attendance' = Event(DeleteResolved(attendance), "deleted")
    /\ UNCHANGED except_attendance

\* the deletion rejected: the toast, then finally
DeleteRejects ==
    /\ attendance.deletes > 0
    /\ attendance' =
          Event([attendance EXCEPT !.deletes = @ - 1, !.deleting = FALSE,
                                   !.isDeleteDialogOpen = FALSE],
                "deleteFailed")
    /\ UNCHANGED except_attendance

InfoCallers(a) == a.info \cup (IF a.reloads > 0 THEN {"delete"} ELSE {})

\* the finally of the handler that awaited loadLastUploadInfo()
AfterInfo(a, by) ==
    CASE by = "upload" -> [a EXCEPT !.info = @ \ {by}, !.uploading = FALSE]
      [] by = "delete" -> [a EXCEPT !.reloads = @ - 1, !.deleting = FALSE,
                                    !.isDeleteDialogOpen = FALSE]
      [] OTHER -> [a EXCEPT !.info = @ \ {by}]

\* getLastUploadInfo() resolves: setLastUploadInfo(info), finally
\* setLoadingInfo(false)
InfoResolves ==
    /\ \E by \in InfoCallers(attendance),
          info \in {"has_upload", "no_upload"} :
          attendance' =
             [AfterInfo([attendance EXCEPT !.lastUploadInfo = info,
                                           !.loadingInfo = FALSE], by)
                 EXCEPT !.event = "info", !.arg = <<by, info>>]
    /\ UNCHANGED except_attendance

\* getLastUploadInfo() rejects: console.error, finally setLoadingInfo(false)
InfoRejects ==
    /\ \E by \in InfoCallers(attendance) :
          attendance' =
             [AfterInfo([attendance EXCEPT !.loadingInfo = FALSE], by)
                 EXCEPT !.event = "infoFailed", !.arg = <<by>>]
    /\ UNCHANGED except_attendance

AttendanceNext ==
    \/ handleFileChange \/ handleDrop \/ RemoveFile
    \/ handleUpload \/ UploadResolves \/ UploadRejects
    \/ OpenDeleteDialog \/ CancelDelete \/ handleDeleteAll
    \/ DeleteResolves \/ DeleteRejects
    \/ InfoResolves \/ InfoRejects


\* --------------------------------------- compliance tables, one cell
\* A cell joins a period descriptor of the answer with the period map of an
\* employee by the descriptor's key and shows the badge of the entry found.
WeekStarts == {"2024-01-15"}
WeekEnds == {"2024-01-19"}
WeekNumbers == {3}
NumberToString(n) == CASE n = 3 -> "3" [] OTHER -> "NaN"

\* key_str of a week descriptor: a string, absent, or not a string
KeyStrs ==
    {[t |-> "string", s |-> "2024-W03"], [t |-> "string", s |-> "2024-W04"],
     [t |-> "absent", s |-> ""], [t |-> "number", s |-> "3"]}

Weeks ==
    [kind : {"week"}, key_str : KeyStrs, week_start : WeekStarts,
     week_end : WeekEnds, week_number : WeekNumbers]

\* month and quarter descriptors carry `key`
Periods ==
    [kind : {"month", "quarter"}, key : {"2024-01", "2024-02"}]

PeriodKeys ==
    {"2024-W03", "2024-W04", "2024-01-15_2024-01-19_3", "2024-01", "2024-02"}

\* what the backend knows of an employee in a period: the attendance rows,
\* the days present and hours worked, and the thresholds of the period
Facts ==
    {[rows |-> 0, days |-> 0, hours |-> 0, need_days |-> 2,
      need_hours |-> 16]}
    \cup [rows : {1}, days : {1, 2}, hours : {8, 16}, need_days : {2},
          need_hours : {16}]

\* the status the backend derives
compliance_status(f) ==
    IF f.rows = 0 THEN "No Data"
    ELSE IF f.days >= f.need_days /\ f.hours >= f.need_hours
         THEN "Compliant"
         ELSE "Not Compliant"

\* the entry of the period map the backend sends for these facts
PeriodData(f) ==
    [compliance_status |-> compliance_status(f),
     total_days_present |-> f.days, total_hours_worked |-> f.hours,
     days |-> f.need_days, hours |-> f.need_hours, facts |-> f]

\* the period maps followed: no entry, one entry, or two
PeriodMaps ==
    {<<>>}
    \cup {k :> PeriodData(f) : k \in PeriodKeys, f \in Facts}
    \cup {(k[1] :> PeriodData(f)) @@ (k[2] :> PeriodData(g)) :
            k \in {p \in PeriodKeys \X PeriodKeys : p[1] # p[2]},
            f \in Facts, g \in Facts}

\* getComplianceBadge(status): the text of the badge
getComplianceBadge_known(status) ==
    CASE status = "Compliant" -> "Compliant"
      [] status = "Not Compliant" -> "Not Compliant"
      [] OTHER -> "Not Compliant"
getComplianceBadge(status) ==
    CASE status = "Compliant" -> "Compliant"
      [] status = "Not Compliant" -> "Not Compliant"
      [] status = "No Data" -> "No Data"
      [] OTHER -> status

\* getWeekKey(week)
getWeekKey_fallback(week) ==
    week.week_start \o "_" \o week.week_end \o "_"
        \o NumberToString(week.week_number)
getWeekKey(week) ==
    IF week.key_str.t = "string" THEN week.key_str.s
    ELSE week.week_start \o "_" \o week.week_end \o "_"
            \o NumberToString(week.week_number)

\* the TableCell: the badge of weekData, or '-'
Cell(key, map) ==
    IF key \in DOMAIN map
    THEN getComplianceBadge(map[key].compliance_status)
    ELSE "-"

NoCell ==
    [descriptor |-> [kind |-> "none"], map |-> <<>>, shown |-> "unrendered"]

CellIdle == cell = NoCell

CellInit ==
    cell \in [descriptor : Weeks \cup Periods, map : PeriodMaps,
              shown : {"unrendered"}]

\* weeklyCompliance.weeks.map((week) => ...)
RenderWeekCell ==
    /\ cell.shown = "unrendered"
    /\ cell.descriptor.kind = "week"
    /\ cell' = [cell EXCEPT
                  !.shown = Cell(getWeekKey(cell.descriptor), cell.map)]
    /\ UNCHANGED except_cell

\* monthlyCompliance.months.map / quarterlyCompliance.quarters.map
RenderPeriodCell ==
    /\ cell.shown = "unrendered"
    /\ cell.descriptor.kind \in {"month", "quarter"}
    /\ cell' = [cell EXCEPT !.shown = Cell(cell.descriptor.key, cell.map)]
    /\ UNCHANGED except_cell

CellNext == RenderWeekCell \/ RenderPeriodCell


\* ------------------------------- CompliancePage: fetchExceptionOptions
\* The effect that fills the exception filter: page 1, then the pages the
\* first answer announces, one after the other.
MaxOptionPages == 2       \* total_pages an answer may announce

ExceptionNames == {"Other", "default", "monthly_4_day", "weekly_2_day"}

\* the order of Array.prototype.sort() on these names (UTF-16 code units)
SortRank(name) ==
    CASE name = "Other" -> 1 [] name = "default" -> 2
      [] name = "monthly_4_day" -> 3 [] name = "weekly_2_day" -> 4

\* the exceptions of one answered page
PageContents ==
    {<<>>, <<"weekly_2_day", "Other">>} \cup {<<n>> : n \in ExceptionNames}

OptionAnswers == [exceptions : PageContents, total_pages : 0..MaxOptionPages]

RECURSIVE Insert(_, _)
Insert(sorted, name) ==
    IF sorted = <<>> THEN <<name>>
    ELSE IF SortRank(name) < SortRank(Head(sorted))
         THEN <<name>> \o sorted
         ELSE <<Head(sorted)>> \o Insert(Tail(sorted), name)

RECURSIVE sort(_)
sort(names) ==
    IF names = <<>> THEN <<>>
    ELSE Insert(sort(SubSeq(names, 1, Len(names) - 1)), names[Len(names)])

NoOptions ==
    [pc |-> "unmounted", page |-> 0, total_pages |-> 0,
     allExceptions |-> <<>>, exceptionOptions |-> <<"All">>,
     requests |-> <<>>, answers |-> <<>>]

OptionsIdle == options = NoOptions

\* getExceptions(page, 200): the request is noted
getExceptions(o, pg) ==
    [o EXCEPT !.pc = "awaiting", !.page = pg,
              !.requests = Append(@, pg)]

\* after the mount: the effect has called getExceptions(1, 200)
OptionsInit == options = getExceptions(NoOptions, 1)

\* the names are sorted and the options set
Finished(o) ==
    [o EXCEPT !.pc = "done",
              !.exceptionOptions =
                  <<"All", "default">> \o sort(o.allExceptions)]

\* `for (let page = 2; page <= response.total_pages; page++)`
NextPage_exclusive(o, pg) ==
    IF pg < o.total_pages THEN getExceptions(o, pg) ELSE Finished(o)
NextPageOrFinish(o, pg) ==
    IF pg <= o.total_pages THEN getExceptions(o, pg) ELSE Finished(o)

\* the awaited getExceptions resolves
OptionsAnswered ==
    /\ options.pc = "awaiting"
    /\ \E r \in OptionAnswers :
          LET o == [options EXCEPT
                      !.allExceptions = @ \o r.exceptions,
                      !.total_pages = IF options.page = 1
                                      THEN r.total_pages ELSE @,
                      !.answers = Append(@, r)] IN
          options' = NextPageOrFinish(o, options.page + 1)
    /\ UNCHANGED except_options

\* the awaited getExceptions rejects: the catch
OptionsFailed ==
    /\ options.pc = "awaiting"
    /\ options' = [options EXCEPT !.pc = "failed",
                                  !.exceptionOptions = <<"All", "default">>]
    /\ UNCHANGED except_options

OptionsNext == OptionsAnswered \/ OptionsFailed


\* ------------------------------ compliance page, a tab already paged
\* The same tab, followed from a later moment: an admin has paged to page
\* `page` of the `total_pages` the last answer announced, nothing is in
\* flight, and the data of the backend may shrink between two requests.
MaxPagerPages == 4        \* total_pages an answer may announce

\* what the backend answers to an admin: nothing, or a page of employees
PagerAnswers ==
    {[current_employee |-> FALSE, employees |-> 0, reportees |-> -1,
      total |-> 0, total_pages |-> 0]}
    \cup {[current_employee |-> FALSE, employees |-> 1, reportees |-> -1,
           total |-> 1, total_pages |-> tp] : tp \in 1..MaxPagerPages}

PagerInit ==
    /\ cpTab = "weekly"
    /\ activeTab = "weekly"
    /\ \E b \in PagerAnswers : \E pg \in 1..MaxPagerPages :
          /\ pg <= b.total_pages
          /\ cp = Applied([NewTab EXCEPT !.timer = FALSE],
                          [seq |-> 1, query |-> QueryOf(NewTab, pg)], b)
    /\ cpPending = {}
    /\ cpIssued = 1
    /\ cpLastOk = 1
    /\ cpMaxOk = 1

\* load...Compliance after its await, on one of these answers
PagerResolves ==
    /\ \E r \in cpPending : \E b \in PagerAnswers :
          /\ cpPending' = cpPending \ {r}
          /\ cp' = Applied(cp, r, b)
          /\ cpLastOk' = r.seq
          /\ cpMaxOk' = IF r.seq > cpMaxOk THEN r.seq ELSE cpMaxOk
    /\ UNCHANGED <<cpTab, activeTab, cpIssued>>
    /\ UNCHANGED <<sessionVars, authCheck, pagesVars>>

PagerNext ==
    \/ setStatus
    \/ setException
    \/ PreviousPage
    \/ NextPage
    \/ PagerResolves
    \/ LoadRejects


\* --------------------------------------------------- employees/page.tsx
MaxEmployeePages == 2     \* total_pages of an answer
MaxFetches == 2           \* list requests of fetchEmployees in flight
MaxEmployeeDeletes == 1   \* deleteEmployee requests in flight

StatusFilters == {"All", "Active"}

\* the state of a page that is not on screen; `requested` and `event` are
\* history: fetchEmployees was called, and the handler that ran last
NoEmployeesPage ==
    [pc |-> "absent", loading |-> TRUE, currentPage |-> 1, totalPages |-> 0,
     employees |-> 0, isDialogOpen |-> FALSE, statusFilter |-> "All",
     fetches |-> {}, deletes |-> {}, requested |-> FALSE, event |-> "none"]

EmployeesPageIdle == employeesPage = NoEmployeesPage

\* what the backend answers to GET /employees?page=pageNum: a page within
\* total_pages has rows (1 stands for any number), a page beyond it has none
EmployeeAnswers(pageNum) ==
    {[employees |-> IF pageNum <= tp THEN 1 ELSE 0, total_pages |-> tp] :
        tp \in 0..MaxEmployeePages}

FreeFetch(e) ==
    CHOOSE i \in 1..MaxFetches : \A f \in e.fetches : f.id # i

CanFetch(e) == Cardinality(e.fetches) < MaxFetches

\* fetchEmployees(pageNum) up to its await
fetchEmployees(e, pageNum) ==
    [e EXCEPT !.loading = TRUE, !.requested = TRUE,
              !.fetches = @ \cup {[id |-> FreeFetch(e), pageNum |-> pageNum]}]

\* the effect on [debouncedSearchQuery, verticalFilter, statusFilter,
\* exceptionFilter], with what getCachedAdminStatus() returned
EmployeesFilterEffect(e, cached) ==
    IF cached # "true" THEN e
    ELSE fetchEmployees([e EXCEPT !.currentPage = 1], 1)

\* fetchEmployees after its await resolved with `response`
FetchApplied(e, f, response) ==
    [e EXCEPT !.employees = response.employees,
              !.totalPages = response.total_pages,
              !.currentPage = f.pageNum,
              !.loading = FALSE,
              !.fetches = @ \ {f}]

\* EmployeesPage after its first commit, opened with the admin-status cache
\* `cache`: its effects ran, and ProtectedRoute is among what it returned.
\* The page is followed while the clock stands at 0.
EmployeesPageInit ==
    /\ now = 0
    /\ token \in SessionTokens
    /\ \E cache \in {NoCache, setCachedAdminStatus(TRUE, 0),
                     setCachedAdminStatus(FALSE, 0)} :
          LET cached == getCachedAdminStatus(cache, now) IN
          /\ adminStatusCache = cached.cache
          /\ lastSet = cached.cache
          /\ employeesPage =
                EmployeesFilterEffect([NoEmployeesPage EXCEPT !.pc = "mounted"],
                             cached.value)
    /\ href = "/employees"
    /\ page = "admin"
    /\ reloadPending = FALSE
    /\ calls = {}
    /\ protectedRoute = [NoProtectedRoute EXCEPT !.present = TRUE]
    /\ adminRoute = NoAdminRoute
    /\ navbar = NoNavbar
    /\ compliancePage = NoCompliancePage
    /\ apiCall = NoApiCall
    /\ authMeFailedAt = -2
    /\ afterLogout = FALSE

\* the children of AdminRoute are on screen
EmployeesShown ==
    /\ employeesPage.pc = "mounted"
    /\ protectedRoute.shown = "children"
    /\ AdminRouteOutput(adminRoute) = "children"

\* loading ? spinner : employees.length === 0 ? 'No employees' : table
RowsShown ==
    /\ EmployeesShown
    /\ ~employeesPage.loading /\ employeesPage.employees > 0

\* {totalPages > 1 && ...}
EmployeesPagerShown == RowsShown /\ employeesPage.totalPages > 1

EmployeesFrame ==
    /\ UNCHANGED <<sessionVars, authCheck, complianceVars>>
    /\ UNCHANGED <<debounce, exceptionDialog, attendance, cell, options,
                   calculateDialog>>

\* the Status select: setStatusFilter, then the filter effect
setStatusFilter ==
    /\ EmployeesShown
    /\ CanFetch(employeesPage)
    /\ \E f \in StatusFilters \ {employeesPage.statusFilter} :
          LET cached == getCachedAdminStatus(adminStatusCache, now) IN
          /\ adminStatusCache' = cached.cache
          /\ employeesPage' =
                [EmployeesFilterEffect([employeesPage EXCEPT !.statusFilter = f],
                              cached.value)
                    EXCEPT !.event = "filter"]
    /\ UNCHANGED <<now, token, href, reloadPending, page, calls,
                   protectedRoute, adminRoute, navbar, compliancePage,
                   apiCall, lastSet, authMeFailedAt, afterLogout>>
    /\ UNCHANGED <<authCheck, complianceVars>>
    /\ UNCHANGED <<debounce, exceptionDialog, attendance, cell, options,
                   calculateDialog>>

\* handleCreate / handleEdit: 'Add Employee', or the edit button of a row
EmployeesHandleCreate ==
    /\ EmployeesShown
    /\ ~employeesPage.isDialogOpen
    /\ employeesPage' =
          [employeesPage EXCEPT !.isDialogOpen = TRUE, !.event = "dialog"]
    /\ EmployeesFrame

\* handleDialogClose, the onClose of EmployeeDialog: the dialog closes,
\* fetchEmployees(currentPage)
EmployeesHandleDialogClose ==
    /\ employeesPage.isDialogOpen
    /\ CanFetch(employeesPage)
    /\ employeesPage' =
          [fetchEmployees([employeesPage EXCEPT !.isDialogOpen = FALSE],
                          employeesPage.currentPage)
              EXCEPT !.event = "dialogClosed"]
    /\ EmployeesFrame

\* the delete button of a row, confirmed: deleteEmployee is sent by a
\* closure that holds the currentPage of this render
handleDelete ==
    /\ RowsShown
    /\ Cardinality(employeesPage.deletes) < MaxEmployeeDeletes
    /\ employeesPage' =
          [employeesPage EXCEPT
              !.deletes = @ \cup {[currentPage |-> employeesPage.currentPage]},
              !.event = "delete"]
    /\ EmployeesFrame

\* deleteEmployee resolved: the toast, fetchEmployees(currentPage)
DeleteEmployeeResolves ==
    /\ CanFetch(employeesPage)
    /\ \E d \in employeesPage.deletes :
          employeesPage' =
             [fetchEmployees([employeesPage EXCEPT !.deletes = @ \ {d}],
                             d.currentPage)
                 EXCEPT !.event = "deleted"]
    /\ EmployeesFrame

\* deleteEmployee rejected: the toast
DeleteEmployeeRejects ==
    /\ \E d \in employeesPage.deletes :
          employeesPage' =
             [employeesPage EXCEPT !.deletes = @ \ {d},
                                   !.event = "deleteFailed"]
    /\ EmployeesFrame

\* Previous: Math.max(1, currentPage - 1), disabled={currentPage === 1}
EmployeesPrevious ==
    /\ EmployeesPagerShown
    /\ employeesPage.currentPage # 1
    /\ CanFetch(employeesPage)
    /\ LET newPage == IF employeesPage.currentPage - 1 > 1
                      THEN employeesPage.currentPage - 1 ELSE 1 IN
       employeesPage' =
          [fetchEmployees([employeesPage EXCEPT !.currentPage = newPage],
                          newPage)
              EXCEPT !.event = "previous"]
    /\ EmployeesFrame

\* Next: Math.min(totalPages, currentPage + 1),
\* disabled={currentPage === totalPages}
EmployeesNextPage ==
    /\ EmployeesPagerShown
    /\ employeesPage.currentPage # employeesPage.totalPages
    /\ CanFetch(employeesPage)
    /\ LET newPage ==
              IF employeesPage.currentPage + 1 < employeesPage.totalPages
              THEN employeesPage.currentPage + 1
              ELSE employeesPage.totalPages IN
       employeesPage' =
          [fetchEmployees([employeesPage EXCEPT !.currentPage = newPage],
                          newPage)
              EXCEPT !.event = "next"]
    /\ EmployeesFrame

\* a list request resolves: the rows, the totals and the page are stored
FetchResolves ==
    /\ \E f \in employeesPage.fetches :
       \E response \in EmployeeAnswers(f.pageNum) :
          employeesPage' =
             [FetchApplied(employeesPage, f, response)
                 EXCEPT !.event = "applied"]
    /\ EmployeesFrame

\* a list request rejects: the toast, finally setLoading(false)
FetchRejects ==
    /\ \E f \in employeesPage.fetches :
          employeesPage' =
             [employeesPage EXCEPT !.loading = FALSE,
                                   !.fetches = @ \ {f},
                                   !.event = "fetchFailed"]
    /\ EmployeesFrame

\* what happens without the user: renders, effects and the network
EmployeesSystem ==
    \/ ProtectedRouteEffect
    \/ ProtectedRouteRender
    \/ AdminRouteMount
    \/ AdminRouteFirstEffects
    \/ AdminRouteEffect
    \/ AdminRouteContinue
    \/ FetchResolves
    \/ FetchRejects
    \/ DeleteEmployeeResolves
    \/ DeleteEmployeeRejects

EmployeesNext ==
    \/ ProtectedRouteEffect
    \/ ProtectedRouteRender
    \/ AdminRouteMount
    \/ AdminRouteFirstEffects
    \/ AdminRouteEffect
    \/ AdminRouteContinue
    \/ setStatusFilter
    \/ EmployeesHandleCreate
    \/ EmployeesHandleDialogClose
    \/ handleDelete
    \/ DeleteEmployeeResolves
    \/ DeleteEmployeeRejects
    \/ EmployeesPrevious
    \/ EmployeesNextPage
    \/ FetchResolves
    \/ FetchRejects


\* ------------------------------------- components/calculate-dialog.tsx
\* new Date().getMonth() + 1
Months == 1..12

CalculateTypes == {"monthly", "quarterly"}

DigitChar(n) == CHOOSE ch \in Digits : DigitValue(ch) = n

\* String(n) of a month or quarter number
StringOfNumber(n) ==
    IF n < 10 THEN <<DigitChar(n)>>
    ELSE <<DigitChar(n \div 10), DigitChar(n % 10)>>

\* type === 'monthly' ? String(new Date().getMonth() + 1) : '1'
InitialValue(type, month) ==
    IF type = "monthly" THEN StringOfNumber(month) ELSE <<"1">>

\* the <SelectItem> values offered for a type
SelectItems(type) ==
    {StringOfNumber(n) :
        n \in IF type = "monthly" THEN 1..12 ELSE 1..4}

\* the checks of handleSubmit on numValue = parseInt(value)
SubmitAccepted(type, numValue) ==
    IF type = "monthly"
    THEN ~(isNaN(numValue) \/ numValue.v < 1 \/ numValue.v > 12)
    ELSE ~(isNaN(numValue) \/ numValue.v < 1 \/ numValue.v > 4)

\* the dialog and the onCalculate call it awaits.  `sent` is the closure of
\* the submit: its type and numValue; calc and refresh are history: how the
\* calculation request and the list refresh of that call ended
NoCalculateDialog ==
    [pc |-> "absent", month |-> 1, open |-> FALSE, type |-> "monthly",
     value |-> <<>>, loading |-> FALSE, phase |-> "idle",
     sent |-> [type |-> "monthly", value |-> 0],
     calc |-> "none", refresh |-> "none", event |-> "none"]

CalculateDialogIdle == calculateDialog = NoCalculateDialog

\* CompliancePage mounts: calculateDialogOpen false, calculateDialogType
\* 'monthly', and the dialog's useState(...) of value
CalculateDialogInit ==
    \E month \in Months :
       calculateDialog =
          [NoCalculateDialog EXCEPT
              !.pc = "mounted", !.month = month,
              !.value = InitialValue("monthly", month)]

CalculateEvent(d, e) == [d EXCEPT !.event = e]

\* handleCalculateMonthly / handleCalculateQuarterly
OpenCalculate(d, type) == [d EXCEPT !.type = type, !.open = TRUE]

handleCalculateMonthly ==
    /\ calculateDialog.pc = "mounted" /\ ~calculateDialog.open
    /\ calculateDialog' =
          CalculateEvent(OpenCalculate(calculateDialog, "monthly"), "open")
    /\ UNCHANGED except_calculateDialog

handleCalculateQuarterly ==
    /\ calculateDialog.pc = "mounted" /\ ~calculateDialog.open
    /\ calculateDialog' =
          CalculateEvent(OpenCalculate(calculateDialog, "quarterly"), "open")
    /\ UNCHANGED except_calculateDialog

\* <Select value={value} onValueChange={setValue}>
setValue ==
    /\ calculateDialog.open
    /\ \E v \in SelectItems(calculateDialog.type) :
          /\ v # calculateDialog.value
          /\ calculateDialog' =
                CalculateEvent([calculateDialog EXCEPT !.value = v], "select")
    /\ UNCHANGED except_calculateDialog

\* onOpenChange(false) by the user: Cancel (disabled while loading), or the
\* Dialog's own close button, Escape or a click outside
DismissCalculate ==
    /\ calculateDialog.open
    /\ calculateDialog' =
          CalculateEvent([calculateDialog EXCEPT !.open = FALSE], "dismiss")
    /\ UNCHANGED except_calculateDialog

\* handleSubmit up to `await onCalculate(year, numValue)`, and
\* handleCalculate up to its await of the calculation request
CalculateSubmitted(d) ==
    LET numValue == parseInt(d.value) IN
    IF ~SubmitAccepted(d.type, numValue)
    THEN CalculateEvent(d, "ignored")
    ELSE CalculateEvent([d EXCEPT !.loading = TRUE,
                                  !.phase = "calculating",
                                  !.sent = [type |-> d.type,
                                            value |-> numValue.v],
                                  !.calc = "pending",
                                  !.refresh = "none"], "submit")

\* the submit button: disabled={loading}
CalculateSubmit ==
    /\ calculateDialog.open /\ ~calculateDialog.loading
    /\ calculateDialog' = CalculateSubmitted(calculateDialog)
    /\ UNCHANGED except_calculateDialog

\* handleSubmit after onCalculate resolved: onOpenChange(false), setValue of
\* the submit's type, finally setLoading(false)
OnCalculateResolved(d) ==
    [d EXCEPT !.open = FALSE,
              !.value = InitialValue(d.sent.type, d.month),
              !.loading = FALSE, !.phase = "idle"]

\* handleSubmit after onCalculate rejected: the empty catch, finally
OnCalculateRejected(d) == [d EXCEPT !.loading = FALSE, !.phase = "idle"]

\* handleCalculate after `await loadMonthlyCompliance()` (or quarterly),
\* which catches its own error: ok tells how the refresh ended
AfterRefresh_rethrown(d, ok) ==
    IF ok THEN OnCalculateResolved([d EXCEPT !.refresh = "ok"])
    ELSE OnCalculateRejected([d EXCEPT !.refresh = "failed"])
AfterRefresh(d, ok) ==
    OnCalculateResolved([d EXCEPT !.refresh = IF ok THEN "ok" ELSE "failed"])

\* the calculation request resolves: the toast, setActiveTab, and the
\* list refresh is sent
CalculationResolves ==
    /\ calculateDialog.phase = "calculating"
    /\ calculateDialog' =
          CalculateEvent([calculateDialog EXCEPT !.phase = "refreshing",
                                                 !.calc = "ok"], "refresh")
    /\ UNCHANGED except_calculateDialog

\* the calculation request rejects: the toast, `throw e`
CalculationRejects ==
    /\ calculateDialog.phase = "calculating"
    /\ calculateDialog' =
          CalculateEvent(
             OnCalculateRejected([calculateDialog EXCEPT !.calc = "failed"]),
             "failed")
    /\ UNCHANGED except_calculateDialog

RefreshResolves ==
    /\ calculateDialog.phase = "refreshing"
    /\ calculateDialog' =
          CalculateEvent(AfterRefresh(calculateDialog, TRUE), "settled")
    /\ UNCHANGED except_calculateDialog

RefreshRejects ==
    /\ calculateDialog.phase = "refreshing"
    /\ calculateDialog' =
          CalculateEvent(AfterRefresh(calculateDialog, FALSE), "settled")
    /\ UNCHANGED except_calculateDialog

CalculateDialogNext ==
    \/ handleCalculateMonthly
    \/ handleCalculateQuarterly
    \/ setValue
    \/ DismissCalculate
    \/ CalculateSubmit
    \/ CalculationResolves
    \/ CalculationRejects
    \/ RefreshResolves
    \/ RefreshRejects


\* ------------------------------------------------------- specifications
vars == <<sessionVars, authCheck, complianceVars, pagesVars>>

\* the state around a component that is followed on its own
OthersIdle == AuthStart /\ ComplianceIdle

PagesIdle ==
    /\ DebounceIdle /\ ExceptionDialogIdle /\ AttendanceIdle
    /\ CellIdle /\ OptionsIdle /\ EmployeesPageIdle
    /\ CalculateDialogIdle

Init ==
    /\ SessionInit /\ authMeFailedAt = -2
    /\ authCheck = NoAuthCheck /\ ComplianceIdle /\ PagesIdle
Next ==
    \/ Tick
    \/ UserGoto
    \/ Navigate
    \/ HardReload
    \/ ProtectedRouteEffect
    \/ ProtectedRouteRender
    \/ ProtectedRouteInterval
    \/ AdminRouteMount
    \/ AdminRouteFirstEffects
    \/ AdminRouteEffect
    \/ AdminRouteContinue
    \/ NavbarEffect
    \/ NavbarContinue
    \/ handleLogout
    \/ CompliancePageEffect
    \/ CompliancePageContinue
    \/ LoginSubmit
    \/ LoginContinue
Spec == Init /\ [][Next]_vars

\* the session again, with the failed checks of GET /auth/me followed
FailuresInit ==
    /\ SessionInit /\ authMeFailedAt = -1
    /\ authCheck = NoAuthCheck /\ ComplianceIdle /\ PagesIdle
\* what reads or writes the admin-status cache, and what moves the user
\* between the pages
FailuresNext ==
    \/ Tick
    \/ UserGoto
    \/ Navigate
    \/ HardReload
    \/ ProtectedRouteEffect
    \/ ProtectedRouteRender
    \/ AdminRouteMount
    \/ AdminRouteFirstEffects
    \/ AdminRouteEffect
    \/ AdminRouteContinue
    \/ NavbarEffect
    \/ NavbarContinue
    \/ handleLogout
FailuresSpec == FailuresInit /\ [][FailuresNext]_vars

ApiStart ==
    ApiInit /\ authCheck = NoAuthCheck /\ ComplianceIdle /\ PagesIdle
ApiSpec == ApiStart /\ [][ApiNext]_vars

AuthInit == AuthStart /\ ComplianceIdle /\ PagesIdle
AuthSpec == AuthInit /\ [][AuthNext]_vars

CompliancePageInit == ComplianceStart /\ ComplianceInit /\ PagesIdle
ComplianceSpec == CompliancePageInit /\ [][ComplianceNext]_vars

DebounceStart ==
    /\ OthersIdle /\ DebounceInit /\ ExceptionDialogIdle
    /\ AttendanceIdle /\ CellIdle /\ OptionsIdle /\ EmployeesPageIdle
    /\ CalculateDialogIdle
DebounceSpec == DebounceStart /\ [][DebounceNext]_vars

ExceptionDialogStart == OthersIdle /\ PagesIdle
ExceptionDialogSpec == ExceptionDialogStart /\ [][ExceptionDialogNext]_vars

AttendanceStart ==
    /\ OthersIdle /\ DebounceIdle /\ ExceptionDialogIdle
    /\ AttendanceInit /\ CellIdle /\ OptionsIdle /\ EmployeesPageIdle
    /\ CalculateDialogIdle
AttendanceSpec == AttendanceStart /\ [][AttendanceNext]_vars

CellStart ==
    /\ OthersIdle /\ DebounceIdle /\ ExceptionDialogIdle
    /\ AttendanceIdle /\ CellInit /\ OptionsIdle /\ EmployeesPageIdle
    /\ CalculateDialogIdle
CellSpec == CellStart /\ [][CellNext]_vars

\* every request of fetchExceptionOptions is answered or fails
OptionsStart ==
    /\ OthersIdle /\ DebounceIdle /\ ExceptionDialogIdle
    /\ AttendanceIdle /\ CellIdle /\ OptionsInit /\ EmployeesPageIdle
    /\ CalculateDialogIdle
OptionsSpec ==
    OptionsStart /\ [][OptionsNext]_vars /\ WF_vars(OptionsNext)

PagerStart ==
    /\ ComplianceStart /\ compliancePage.isAdmin
    /\ PagerInit /\ PagesIdle
PagerSpec == PagerStart /\ [][PagerNext]_vars


\* EmployeesPage from its first commit on; what needs no user (renders,
\* effects, answers of the backend) happens as long as it can
EmployeesStart ==
    /\ EmployeesPageInit /\ authCheck = NoAuthCheck /\ ComplianceIdle
    /\ DebounceIdle /\ ExceptionDialogIdle /\ AttendanceIdle
    /\ CellIdle /\ OptionsIdle /\ CalculateDialogIdle
EmployeesSpec ==
    EmployeesStart /\ [][EmployeesNext]_vars /\ WF_vars(EmployeesSystem)


CalculateDialogStart ==
    /\ OthersIdle /\ DebounceIdle /\ ExceptionDialogIdle
    /\ AttendanceIdle /\ CellIdle /\ OptionsIdle /\ EmployeesPageIdle
    /\ CalculateDialogInit
CalculateDialogSpec == CalculateDialogStart /\ [][CalculateDialogNext]_vars


\* ------------------------------------------------------------ properties
ApiSettledOn(resp) == apiCall.st = "settled" /\ apiCall.resp = resp
ApiAnswered == apiCall.st = "settled" /\ apiCall.resp # NetworkError

\* C1: whenever an ApiClient call (request(), uploadExcel, uploadAttendance)
\* has been answered with HTTP 401, the token is removed, the admin-status
\* cache is cleared, the browser is sent to /login and the call is
\* rejected, whatever the token, cache and location were before the call.
C1_Unauthorized ==
    (ApiAnswered /\ apiCall.resp.status = 401)
    => /\ token = NoToken
       /\ adminStatusCache = NoCache
       /\ href = "/login" /\ reloadPending
       /\ apiCall.res.outcome = "rejected"

\* an upload was answered 401 and the session is gone
C1_Witness ==
    /\ ApiAnswered /\ apiCall.resp.status = 401
    /\ apiCall.ep = "/attendance/upload"
    /\ token = NoToken /\ lastSet = NoCache /\ href = "/login"

\* the body carries a detail
HasDetail(resp) ==
    /\ resp.body.kind = "object"
    /\ resp.body.detail.t # "absent" /\ resp.body.detail.s # ""

\* C2 as stated: for any non-2xx answer, whatever its status, the call is
\* rejected with the server's detail as message, or with the HTTP status
\* text / `HTTP <status>` when the body carries no detail.
C2_AnyStatus ==
    (ApiAnswered /\ ~ResponseOk(apiCall.resp))
    => /\ apiCall.res.outcome = "rejected"
       /\ IF HasDetail(apiCall.resp)
          THEN apiCall.res.message = apiCall.resp.body.detail.s
          ELSE apiCall.res.message \in
                  {apiCall.resp.statusText,
                   "HTTP " \o ToString(apiCall.resp.status)}

\* C2 amended: a 401 is rejected with the fixed session-expired message; a
\* JSON body of null is rejected with a TypeError; any other non-2xx answer
\* is rejected with the detail (as a string) when the body is JSON with a
\* non-empty detail, with the status text when the body is not JSON and the
\* status text is not empty, and with `HTTP <status>` otherwise.
C2_ErrorMessage ==
    (ApiAnswered /\ ~ResponseOk(apiCall.resp))
    => /\ apiCall.res.outcome = "rejected"
       /\ apiCall.res.message =
             IF apiCall.resp.status = 401 THEN SessionExpired
             ELSE IF apiCall.resp.body.kind = "null" THEN NullDetailTypeError
             ELSE IF HasDetail(apiCall.resp)
                  THEN apiCall.resp.body.detail.s
             ELSE IF apiCall.resp.body.kind = "invalid"
                     /\ apiCall.resp.statusText # ""
                  THEN apiCall.resp.statusText
             ELSE "HTTP " \o ToString(apiCall.resp.status)

\* a 500 with a detail was turned into an error carrying that detail
C2_Witness ==
    /\ ApiAnswered /\ apiCall.resp.status = 500
    /\ HasDetail(apiCall.resp)
    /\ apiCall.res.message = "Employee not found"

\* C3: AdminRoute returns its children only when the admin status was
\* established as true, by an unexpired cache entry or by a successful
\* /auth/me answer with is_admin true; and whenever its isAdmin becomes
\* false (non-admin, or the check failed) the router is sent to /compliance.
C3_AdminGate ==
    /\ [](AdminRouteOutput(adminRoute) = "children"
            => /\ adminRoute.verified
               /\ adminRoute.source \in {"cache", "answer"})
    /\ [][(adminRoute.isAdmin # "false" /\ adminRoute'.isAdmin = "false")
            => href' = "/compliance"]_vars

\* the children are on screen after a successful /auth/me answer
C3_Witness ==
    /\ AdminRouteOutput(adminRoute) = "children"
    /\ adminRoute.source = "answer"

\* C4 as stated: once apiClient.logout has run, and until a later login
\* stores a token, no token is stored, and no step repopulates the
\* admin-status cache: not the answer of a GET /auth/me that was in flight
\* when logout ran either.
C4_EmptyAfterLogout ==
    /\ [](afterLogout => token = NoToken)
    /\ [][(afterLogout /\ afterLogout' /\ adminStatusCache = NoCache)
            => adminStatusCache' = NoCache]_vars

\* C5: getCachedAdminStatus() returns the value of the last
\* setCachedAdminStatus() exactly when that set is at most CACHE_DURATION
\* old and nothing cleared the cache since; otherwise it returns null and
\* leaves the cache empty; a read that returns a value leaves the entry,
\* timestamp included, as it was.
C5_CacheLifetime ==
    LET r == getCachedAdminStatus(adminStatusCache, now) IN
    /\ r.value = IF lastSet.set /\ now - lastSet.timestamp <= 300000
                 THEN Tri(lastSet.isAdmin) ELSE "null"
    /\ r.value = "null" => r.cache = NoCache
    /\ r.value # "null" => r.cache = lastSet

\* an entry older than five minutes was evicted by a read
C5_Witness ==
    /\ lastSet.set /\ ~adminStatusCache.set
    /\ now - lastSet.timestamp > 300000

\* the steps in which a component that needs the admin status mounts
CacheFresh == getCachedAdminStatus(adminStatusCache, now).value # "null"
AdminRouteChecks == adminRoute.pc = "mounted" /\ adminRoute'.pc = "checked"
NavbarMounts == navbar.pc = "created" /\ navbar'.pc = "mounted"
CompliancePageMounts ==
    compliancePage.pc = "created" /\ compliancePage'.pc = "mounted"
NoNewAuthMe == \A c \in calls' \ calls : c.ep # "/auth/me"

\* C6 as stated: while an unexpired admin status is cached, mounting
\* AdminRoute, Navbar or CompliancePage issues no GET /auth/me.
C6_NoRequestWhenCached ==
    [][(CacheFresh /\ (AdminRouteChecks \/ NavbarMounts
                         \/ CompliancePageMounts))
         => NoNewAuthMe]_vars

\* C6 amended: while an unexpired admin status is cached, mounting
\* AdminRoute takes the cached value and issues no GET /auth/me; Navbar
\* takes the cached value at once and still issues GET /auth/me;
\* CompliancePage issues GET /auth/me whatever the cache holds.
C6_AdminRouteUsesCache ==
    /\ [][(CacheFresh /\ AdminRouteChecks)
            => /\ NoNewAuthMe
               /\ adminRoute'.isAdmin = Tri(adminStatusCache.isAdmin)
               /\ ~adminRoute'.isChecking]_vars
    /\ [][(CacheFresh /\ NavbarMounts)
            => /\ ~NoNewAuthMe
               /\ navbar'.isAdmin = Tri(adminStatusCache.isAdmin)]_vars
    /\ [][CompliancePageMounts => ~NoNewAuthMe]_vars

\* AdminRoute took `true` from the cache and nothing is in flight
C6_Witness ==
    /\ adminRoute.pc = "checked" /\ adminRoute.source = "cache"
    /\ adminRoute.isAdmin = "true" /\ calls = {}

\* a token whose exp, in seconds, lies strictly after t (in ms)
HasUnexpiredToken(tk, t) == tk.kind = "num" /\ tk.exp * 1000 > t

\* C7 as stated: isAuthenticated() on a stored token that is expired
\* (exp * 1000 <= now), has no exp or cannot be decoded removes the token
\* and returns false; it returns true only for a token whose exp is
\* strictly in the future, and then leaves the token stored.
C7_IsAuthenticated ==
    (authCheck.ran /\ authCheck.before # NoToken)
    => /\ (\/ authCheck.before.kind \in {"undecodable", "noexp"}
           \/ /\ authCheck.before.kind = "num"
              /\ authCheck.before.exp * 1000 <= authCheck.at)
          => (~authCheck.value /\ authCheck.after = NoToken)
       /\ authCheck.value
          => /\ HasUnexpiredToken(authCheck.before, authCheck.at)
             /\ authCheck.after = authCheck.before

\* C8 as stated: ProtectedRoute starts returning its children only in a
\* render where an unexpired token is stored, and its mount effect sends
\* the router to /login when no unexpired token is stored.
C8_ProtectedGate ==
    /\ [][(protectedRoute.shown = "null" /\ protectedRoute'.shown = "children")
            => HasUnexpiredToken(token, now)]_vars
    /\ [][(protectedRoute.present /\ ~protectedRoute.mounted
             /\ protectedRoute'.mounted /\ ~HasUnexpiredToken(token, now))
            => href' = "/login"]_vars

\* ProtectedRoute is right for every token that isAuthenticated() judges
\* right: with an absent or numeric exp the gate holds
C8_GateForNumericExp ==
    /\ [][(protectedRoute.shown = "null" /\ protectedRoute'.shown = "children")
            => (token.kind = "nonnum" \/ HasUnexpiredToken(token, now))]_vars
    /\ [][(protectedRoute.present /\ ~protectedRoute.mounted
             /\ protectedRoute'.mounted /\ token.kind # "nonnum"
             /\ ~HasUnexpiredToken(token, now))
            => href' = "/login"]_vars

\* C9 as stated: whenever the tab displays a response that contains
\* current_employee, the My Compliance table with the current employee's
\* row is rendered, whatever the search, status and exception filters are.
C9_MyComplianceShown ==
    (/\ ~cp.loading /\ cpPending = {}
     /\ ~cp.compliance.null /\ cp.compliance.current_employee
     /\ cp.compliance.query = QueryOf(cp, cp.page))     \* nothing stale
    => TabRender(cp).my

\* C10: every 2xx answer of a compliance request is applied when it
\* arrives, whether or not a request sent later was answered before it:
\* the displayed response, the total pages and the page number become
\* those of the answered request and the filter controls are not touched.
C10_AnswerAppliedUnconditionally ==
    [][(cpLastOk' # cpLastOk)
         => /\ cp'.compliance.seq = cpLastOk'
            /\ cp'.compliance.query \in
                  {r.query : r \in {q \in cpPending : q.seq = cpLastOk'}}
            /\ cp'.totalPages = cp'.compliance.total_pages
            /\ cp'.page = cp'.compliance.query.page
            /\ ~cp'.loading
            /\ cp'.status = cp.status /\ cp'.exception = cp.exception
            /\ cp'.searchQuery = cp.searchQuery
            /\ cp'.debouncedSearch = cp.debouncedSearch]_vars

\* the stale state: nothing is in flight, the response on screen belongs
\* to a request older than one already answered, and it was asked for
\* with other filters than the controls show
C10_Witness ==
    /\ cpPending = {} /\ ~cp.loading /\ activeTab = cpTab
    /\ ~cp.compliance.null
    /\ cp.compliance.seq < cpMaxOk
    /\ cp.compliance.query # QueryOf(cp, cp.compliance.query.page)
    /\ cp.page = cp.compliance.query.page
    /\ cp.totalPages = cp.compliance.total_pages

\* C11: a request triggered by the search input is sent only when the
\* text has been unchanged for at least 500 ms, it carries the final text
\* (trimmed, as the page sends it), and between two keystrokes at most one
\* request is sent, however many keystrokes the burst had.
C11_Debounced ==
    /\ [][(debounce'.sent # debounce.sent)
            => /\ Len(debounce'.sent) = Len(debounce.sent) + 1
               /\ debounce.now - debounce.lastChange >= 500
               /\ debounce'.sent[Len(debounce'.sent)].search
                     = SearchParam(debounce.searchQuery)
               /\ debounce'.debounced = debounce.searchQuery]_vars
    /\ [](debounce.sinceChange <= 1)

\* a burst of three keystrokes ended in one request carrying " ann" trimmed
C11_Witness ==
    /\ Len(debounce.sent) = 1
    /\ debounce.sent[1].burst >= 3
    /\ debounce.sent[1].search = "ann"
    /\ debounce.searchQuery = " ann"

\* C12: every name ExceptionDialog passes to createException or
\* updateException is 'default', 'other' or {period}_{N}_day with period one
\* of weekly, monthly, quarterly and N a positive integer numeral; a submit
\* of any other form makes no call.
C12_PositiveNumeral(text) ==
    text # <<>> /\ DigitsPrefix(text) = text /\ DecimalValue(text) > 0
C12_ValidNames ==
    SpecialTypes \cup
    {FormatName(p, n) : p \in ExceptionPeriods,
                        n \in {t \in NumberTexts : C12_PositiveNumeral(t)}}
C12_ValidatedName ==
    /\ exceptionDialog.request # NoRequest
          => exceptionDialog.request.body.name \in C12_ValidNames
    /\ exceptionDialog.submit = "rejected"
          => exceptionDialog.request = NoRequest

\* C15: a submit of the format form sends the name
\* `${period}_${number}_day` of the period and number chosen ('monthly' and
\* '4' send 'monthly_4_day'); a create is POST /exceptions, an edit is
\* PUT /exceptions/{id} with the id of the exception being edited, and the
\* body holds `name` and nothing else.
C15_RequestSent ==
    [][(exceptionDialog.request = NoRequest
        /\ exceptionDialog'.request # NoRequest)
          => LET d == exceptionDialog
                 r == exceptionDialog'.request IN
             /\ DOMAIN r.body = {"name"}
             /\ d.exceptionType = "format"
                   => r.body.name = d.formData.period \o "_"
                                      \o Str(d.formData.number) \o "_day"
             /\ IF d.exception = NoException
                THEN r.method = "POST" /\ r.path = <<"exceptions">>
                ELSE r.method = "PUT"
                     /\ r.path = <<"exceptions", d.exception.id>>]_vars
C15_Witness ==
    /\ exceptionDialog.exception = NoException
    /\ exceptionDialog.formData.period = "monthly"
    /\ exceptionDialog.formData.number = <<"4">>
    /\ exceptionDialog.request =
          [method |-> "POST", path |-> <<"exceptions">>,
           body |-> [name |-> "monthly_4_day"]]
C15_EditWitness ==
    /\ exceptionDialog.exception.id = 1
    /\ exceptionDialog.formData.period = "quarterly"
    /\ exceptionDialog.request =
          [method |-> "PUT", path |-> <<"exceptions", 1>>,
           body |-> [name |-> "quarterly_4_day"]]

\* C13: when the answer shown has no current_employee and a non-empty
\* employees list, the tab renders no 'My Compliance' section and an
\* 'All Employees' table with one row per element of employees, with
\* reportees absent and with reportees an empty list.
C13_AllEmployeesRows ==
    (/\ ~cp.loading
     /\ ~cp.compliance.null
     /\ ~cp.compliance.current_employee
     /\ cp.compliance.employees > 0)
       => /\ TabRender(cp).view = "tables"
          /\ ~TabRender(cp).my
          /\ TabRender(cp).list = "all"
          /\ TabRender(cp).rows = cp.compliance.employees

\* C14: uploadAttendance and uploadExcel are called only with a file whose
\* name, lower-cased, ends in .xlsx or .xls; selecting or dropping any other
\* file makes no call and leaves the selected file and the upload result as
\* they were.
C14_EndsWith(name, suffix) ==
    /\ Len(name) >= Len(suffix)
    /\ NameToLowerCase(SubSeq(name, Len(name) - Len(suffix) + 1, Len(name)))
          = suffix
C14_Excel(name) ==
    \/ C14_EndsWith(name, <<".", "x", "l", "s", "x">>)
    \/ C14_EndsWith(name, <<".", "x", "l", "s">>)
C14_OnlyExcelUploaded ==
    /\ [](attendance.upload # NoFile => C14_Excel(attendance.upload))
    /\ [][(attendance'.event \in {"accepted", "rejected"}
           /\ ~C14_Excel(attendance'.arg))
             => /\ attendance'.event = "rejected"
                /\ attendance'.file = attendance.file
                /\ attendance'.uploadResult = attendance.uploadResult
                /\ attendance'.upload = attendance.upload]_vars
C14_Witness ==
    /\ attendance.event = "rejected"
    /\ attendance.arg = <<"a", ".", "x", "l", "s", ".", "t">>
    /\ attendance.file = <<"a", ".", "X", "L", "S">>
    /\ attendance.upload = <<"a", ".", "x", "l", "s", "x">>
    /\ attendance.uploadResult = "null"

\* C18: when the deletion confirmed in the 'Delete All' dialog succeeds the
\* page calls getLastUploadInfo() again, and when that answer says
\* has_upload false the page holds has_upload false and offers no
\* 'Delete All' button; when the deletion fails the last-upload info is
\* left as it was.
C18_ReloadAfterDelete ==
    /\ [][attendance'.event = "deleted"
            => /\ attendance'.reloads = attendance.reloads + 1
               /\ attendance'.lastUploadInfo = attendance.lastUploadInfo]_vars
    /\ [][(attendance'.event = "info"
           /\ attendance'.arg = <<"delete", "no_upload">>)
            => /\ attendance'.lastUploadInfo = "no_upload"
               /\ ~DeleteAllOffered(attendance')]_vars
    /\ [][attendance'.event = "deleteFailed"
            => /\ attendance'.lastUploadInfo = attendance.lastUploadInfo
               /\ attendance'.reloads = attendance.reloads
               /\ attendance'.info = attendance.info]_vars
C18_Witness ==
    /\ attendance.event = "info"
    /\ attendance.arg = <<"delete", "no_upload">>
    /\ attendance.lastUploadInfo = "no_upload"
    /\ ~attendance.deleting

\* C16: the cell of a period descriptor shows the entry the employee's
\* period map holds under the descriptor's key (key_str of a week, or
\* week_start_week_end_week_number when key_str is not a string; key of a
\* month or quarter), and shows '-' only when the map has no entry there.
C16_KeyOf(d) ==
    IF d.kind = "week"
    THEN IF d.key_str.t = "string" THEN d.key_str.s
         ELSE "2024-01-15_2024-01-19_3"
    ELSE d.key
C16_CellJoinsByKey ==
    cell.shown # "unrendered"
       => LET key == C16_KeyOf(cell.descriptor) IN
          /\ key \in DOMAIN cell.map
                => cell.shown = cell.map[key].compliance_status
          /\ (cell.shown = "-") = (key \notin DOMAIN cell.map)
C16_Witness ==
    /\ cell.descriptor.kind = "week"
    /\ cell.descriptor.key_str.t = "number"
    /\ DOMAIN cell.map = {"2024-W03", "2024-01-15_2024-01-19_3"}
    /\ cell.map["2024-W03"].compliance_status = "Compliant"
    /\ cell.shown = "Not Compliant"

\* C19: the status of an employee in a period is 'No Data' exactly when
\* the employee has no attendance rows in it, else 'Compliant' when the day
\* and the hour threshold are both met and 'Not Compliant' when not; the
\* cell shows the status received.
C19_StatusShown ==
    (cell.shown # "unrendered" /\ cell.shown # "-")
       => LET f == cell.map[C16_KeyOf(cell.descriptor)].facts IN
          /\ (cell.shown = "No Data") = (f.rows = 0)
          /\ f.rows > 0
                => (cell.shown = "Compliant")
                      = (f.days >= f.need_days /\ f.hours >= f.need_hours)
          /\ cell.shown \in {"No Data", "Compliant", "Not Compliant"}
C19_Witness ==
    /\ cell.shown = "No Data"
    /\ cell.descriptor.kind = "month"
    /\ cell.map[cell.descriptor.key].facts.rows = 0

\* C17: fetchExceptionOptions requests page 1 and then, one at a time, each
\* page 2..total_pages of the first answer; it always ends; it ends with
\* the options 'All', 'default' and the sorted names of every exception
\* fetched, or, when a request failed, with exactly 'All', 'default'.
RECURSIVE C17_Fetched(_)
C17_Fetched(answers) ==
    IF answers = <<>> THEN <<>>
    ELSE C17_Fetched(SubSeq(answers, 1, Len(answers) - 1))
            \o answers[Len(answers)].exceptions
C17_Count(names, n) == Cardinality({i \in DOMAIN names : names[i] = n})
C17_Ended == options.pc \in {"done", "failed"}
C20_NoTokenNoCache == token = NoToken => adminStatusCache = NoCache

\* C27: the loading flag of a tab is true whenever at least one request of
\* that tab is still in flight, also when several of its requests overlap.
C27_LoadingWhilePending == cpPending # {} => cp.loading

\* C25: a change of tab, status filter, exception filter or debounced
\* search text makes the next request of the tab a request for page 1, and
\* the Previous and Next buttons only request a page in 1..totalPages of
\* the last applied answer.
C25_FilterChanged ==
    \/ activeTab' # activeTab
    \/ cp'.status # cp.status
    \/ cp'.exception # cp.exception
    \/ cp'.debouncedSearch # cp.debouncedSearch
C25_PagesRequested ==
    [][\A r \in cpPending' \ cpPending :
          IF C25_FilterChanged THEN r.query.page = 1
          ELSE r.query.page \in 1..cp.compliance.total_pages]_vars


\* C28: the upload of AttendancePage / UploadPage is a state machine.  An
\* upload starts only with a selected file and with none in flight; when it
\* resolves the selected file is cleared, a success result is recorded and, on
\* AttendancePage, the last-upload info is requested again; when it rejects
\* the selected file is kept and a failure result carrying the thrown message
\* is recorded; and `uploading` is true only while the upload, or the info
\* request that handleUpload awaits, is outstanding.
C28_Step(e) == attendance'.event = e /\ attendance' # attendance

C28_UploadMachine ==
    [][/\ C28_Step("upload") =>
             /\ attendance.file # NoFile
             /\ ~attendance.uploading /\ attendance.upload = NoFile
             /\ attendance'.uploading
             /\ attendance'.upload = attendance.file
       /\ C28_Step("uploaded") =>
             /\ attendance'.file = NoFile
             /\ attendance'.uploadResult = "success"
             /\ attendance.page = "attendance" =>
                   /\ "upload" \in attendance'.info \ attendance.info
                   /\ attendance'.loadingInfo
       /\ C28_Step("uploadFailed") =>
             /\ attendance'.file = attendance.file
             /\ attendance'.uploadResult = "failure"
             /\ attendance'.message = attendance'.arg[1]
             /\ attendance'.message # ""
             /\ ~attendance'.uploading
       /\ attendance'.uploading =>
             \/ attendance'.upload # NoFile
             \/ "upload" \in attendance'.info]_vars

\* a rejected upload left its file selected and its message shown
C28_Witness ==
    /\ attendance.event = "uploadFailed"
    /\ attendance.file # NoFile
    /\ attendance.uploadResult = "failure"
    /\ attendance.message = "Failed to fetch"
    /\ ~attendance.uploading


\* C22 as stated: a failed GET /auth/me (Navbar, or AdminRoute while
\* mounted) writes admin = false to the cache, and every AdminRoute whose
\* effect runs within CACHE_DURATION of that failure redirects to
\* /compliance from the cached value without sending a request.
C22_Failed == authMeFailedAt' = now' /\ authMeFailedAt' # authMeFailedAt

C22_EffectRuns == adminRoute.pc = "mounted" /\ adminRoute'.pc = "checked"

C22_FromCachedFalse ==
    /\ adminRoute'.source = "cache" /\ adminRoute'.isAdmin = "false"
    /\ href' = "/compliance"
    /\ calls' = calls

C22_FalseForFiveMinutes ==
    [][/\ C22_Failed =>
             adminStatusCache' = setCachedAdminStatus(FALSE, now)
       /\ (/\ C22_EffectRuns
           /\ authMeFailedAt >= 0
           /\ now - authMeFailedAt <= CACHE_DURATION) =>
             C22_FromCachedFalse]_vars

\* C22, amended: the failure writes admin = false with the current time; an
\* AdminRoute whose effect finds that entry, not older than CACHE_DURATION,
\* redirects to /compliance without a request; and within its lifetime the
\* entry leaves the cache only when a later /auth/me call of Navbar or
\* AdminRoute ends and records its own answer, when the token is removed
\* with the cache (logout, a 401), or when the document is loaded again.
C22_FalseEntry(t) ==
    /\ adminStatusCache = setCachedAdminStatus(FALSE, t)
    /\ now - t <= CACHE_DURATION

C22_FalseUntilReplaced ==
    [][/\ C22_Failed =>
             adminStatusCache' = setCachedAdminStatus(FALSE, now)
       /\ (C22_EffectRuns /\ authMeFailedAt >= 0
           /\ C22_FalseEntry(authMeFailedAt)) =>
             C22_FromCachedFalse
       /\ (/\ authMeFailedAt >= 0 /\ C22_FalseEntry(authMeFailedAt)
           /\ adminStatusCache' # adminStatusCache) =>
             \/ \E c \in calls \ calls' :
                   c.ep = "/auth/me" /\ c.caller \in {"Navbar", "AdminRoute"}
             \/ token' = NoToken /\ adminStatusCache' = NoCache
             \/ reloadPending /\ ~reloadPending'
                   /\ adminStatusCache' = NoCache]_vars

\* an AdminRoute was turned away by the false that a failed check left
C22_Witness ==
    /\ authMeFailedAt >= 0
    /\ adminStatusCache = setCachedAdminStatus(FALSE, authMeFailedAt)
    /\ adminRoute.source = "cache" /\ adminRoute.isAdmin = "false"
    /\ href = "/compliance"


\* C21: once a verified admin has the Employees page on screen, the list is
\* eventually requested and the page eventually leaves its loading state,
\* with no help from the user.
C21_Opened ==
    /\ employeesPage.pc = "mounted"
    /\ adminRoute.verified
    /\ AdminRouteOutput(adminRoute) = "children"

C21_ListLoads ==
    C21_Opened ~> (employeesPage.requested /\ ~employeesPage.loading)


\* C26: on the Employees page the current page never exceeds
\* max(1, totalPages), the total of the last applied answer.
C26_PageWithinTotal ==
    employeesPage.pc = "mounted" =>
        employeesPage.currentPage <=
            (IF employeesPage.totalPages > 1
             THEN employeesPage.totalPages ELSE 1)


\* C23: whenever the Calculate dialog is open its selected value is a number
\* of its type (a quarter 1..4, a month 1..12), and every submit invokes
\* onCalculate with such a value.
C23_InRange(type, n) == n \in (IF type = "monthly" THEN 1..12 ELSE 1..4)

C23_ValueValid(d) ==
    LET numValue == parseInt(d.value) IN
    ~isNaN(numValue) /\ C23_InRange(d.type, numValue.v)

C23_Submits ==
    /\ calculateDialog.open /\ ~calculateDialog.loading
    /\ calculateDialog'.event \in {"submit", "ignored"}
    /\ calculateDialog' # calculateDialog

C23_SelectedValueValid ==
    [][/\ calculateDialog'.open => C23_ValueValid(calculateDialog')
       /\ C23_Submits =>
             /\ calculateDialog'.event = "submit"
             /\ C23_InRange(calculateDialog'.sent.type,
                            calculateDialog'.sent.value)]_vars

\* C24: the handler of a submit ends with loading false; it has closed the
\* dialog exactly when the calculation request succeeded, however the list
\* refresh after it ended, and it leaves `open` as it was when the
\* calculation request failed.  Nothing else closes the dialog but the user.
C24_HandlerEnds ==
    calculateDialog.phase # "idle" /\ calculateDialog'.phase = "idle"

C24_ClosedIffCalculated ==
    [][/\ C24_HandlerEnds =>
             /\ ~calculateDialog'.loading
             /\ IF calculateDialog'.calc = "ok"
                THEN /\ ~calculateDialog'.open
                     /\ calculateDialog'.refresh \in {"ok", "failed"}
                ELSE /\ calculateDialog'.calc = "failed"
                     /\ calculateDialog'.open = calculateDialog.open
       /\ (calculateDialog.open /\ ~calculateDialog'.open) =>
             \/ calculateDialog'.event = "dismiss"
             \/ C24_HandlerEnds /\ calculateDialog'.calc = "ok"
       /\ (calculateDialog.loading /\ ~calculateDialog'.loading) =>
             C24_HandlerEnds]_vars

\* the calculation succeeded, the refresh failed, and the dialog closed
C24_Witness ==
    /\ calculateDialog.event = "settled"
    /\ calculateDialog.calc = "ok" /\ calculateDialog.refresh = "failed"
    /\ ~calculateDialog.open /\ ~calculateDialog.loading

====
